---------------------------- MODULE Spec2Model ----------------------------
(***************************************************************************)
(* Document state store of the spreadsheet editor: the reducer             *)
(* (documentReducer), the provider's derived queries and persistence       *)
(* operations (saveToIPFS / loadFromIPFS), and the export service's        *)
(* column conversion (columnToIndex).                                      *)
(*                                                                         *)
(* JavaScript objects are functions from field names to values; a field    *)
(* that is not set is not in the DOMAIN.  A field that is set to the value *)
(* undefined is in the DOMAIN with the value Undefined.                    *)
(***************************************************************************)
EXTENDS Integers, Sequences, FiniteSets, TLC

VARIABLES
    state,       \* the DocumentState held by useReducer
    lastAction,  \* history: the action of the last dispatch (type, payload)
    prevState,   \* history: the state that the last dispatch reduced
    clock,       \* the wall clock read by new Date()
    store,       \* content storage: store[cid] is the content uploaded as cid
    savedAs,     \* history: savedAs[cid] = the states passed to an upload that returned cid
    saves,       \* saveToIPFS calls awaiting their upload: the state each closure captured
    loads,       \* loadFromIPFS calls awaiting their download: the cid of each
    lastCid,     \* history: the cid of the last save or load that completed, 0 before
    column,      \* the column string given to columnToIndex (char codes)
    colIndex,    \* <<n>> once columnToIndex has returned n for it, <<>> before
    timers,      \* the pending timeouts: id -> [remaining (ms), closure (the state of
                 \* the render whose saveToIPFS the callback calls)]
    autoSaveTimerRef,  \* autoSaveTimerRef.current: <<>> for null, <<id>> for a timer id
    sinceChange, \* history: ms since the last render with a new state, up to the delay
    autoSaveEnabled,   \* the provider's autoSaveEnabled prop
    mounted,     \* the provider is mounted
    firings,     \* history: the number of runs of the auto-save timer callback
    fired,       \* history: <<>>, or <<r>> with r the record of the last timer callback
    settled,     \* history: the record of the save or load that the last step completed
    cellData,    \* the live cellData of the SpreadsheetContext, as Object.entries gives it
    cellFormats, \* the live cellFormats, likewise
    rowHeights,  \* the live rowHeights, likewise
    columnWidths,      \* the live columnWidths, likewise
    syncDue      \* the effects of useSpreadsheetDocumentSync are to run: the hook has
                 \* mounted, or activeSheet is another object than at their last run

docVars == <<state, lastAction, prevState>>
persistVars == <<store, savedAs, saves, loads, lastCid>>
columnVars == <<column, colIndex>>
schedVars == <<timers, autoSaveTimerRef, sinceChange>>
propVars == <<autoSaveEnabled, mounted>>
callVars == <<firings, fired, settled>>
liveVars == <<cellData, cellFormats, rowHeights, columnWidths>>
syncVars == <<liveVars, syncDue>>

vars == <<docVars, clock, persistVars, columnVars, schedVars, propVars, callVars, syncVars>>

\* no component calls useSpreadsheetDocumentSync
NoSync ==
    /\ cellData = <<>>
    /\ cellFormats = <<>>
    /\ rowHeights = <<>>
    /\ columnWidths = <<>>
    /\ syncDue = FALSE

----------------------------------------------------------------------------
(* Bounds of the model *)

MaxSheets == 3     \* ADD_SHEET is not taken beyond this many sheets
MaxClock == 1      \* the clock stops ticking here
MaxEntities == 2   \* ADD_IMAGE / ADD_CHART are not taken beyond this many entries
MaxSaves == 1      \* a caller does not call saveToIPFS once this many contents are stored
MaxInFlight == 1   \* callers' saves and loads awaiting their upload or download at one time
MaxFirings == 1    \* the auto-save timer callback does not run more often than this
MaxColLen == 3     \* longest column string converted
MaxAutoSaves == 2  \* firings of the auto-save timer in a session left to itself

----------------------------------------------------------------------------
(* JavaScript values *)

Undefined == "<undefined>"
Null == "<null>"
EmptyObj == <<>>

\* { ...a, ...b }
Merge(a, b) ==
    [k \in (DOMAIN a) \cup (DOMAIN b) |-> IF k \in DOMAIN b THEN b[k] ELSE a[k]]

\* { ...obj, [key]: value }
SetKey(obj, key, value) ==
    [k \in (DOMAIN obj) \cup {key} |-> IF k = key THEN value ELSE obj[k]]

\* the fields that the code can set to undefined (their other values are strings)
UndefinableFields == {"sparkline", "protectionPassword"}

\* obj.field is undefined: not set, or set to undefined
IsUndefined(obj, field) ==
    \/ field \notin DOMAIN obj
    \/ field \in UndefinableFields /\ obj[field] = Undefined

\* a.field === b.field (deep for nested values), where an unset field reads undefined
SameField(a, b, field) ==
    /\ IsUndefined(a, field) = IsUndefined(b, field)
    /\ ~IsUndefined(a, field) => a[field] = b[field]

----------------------------------------------------------------------------
(* Initial state *)

BlankSheet(sheetId, name) ==
    [ sheetId |-> sheetId,
      name |-> name,
      visible |-> TRUE,
      grid |-> [ rows |-> 1000, columns |-> 26,
                 rowSizes |-> EmptyObj, columnSizes |-> EmptyObj,
                 frozenRows |-> 0, frozenColumns |-> 0,
                 showGridlines |-> TRUE, showRowHeaders |-> TRUE,
                 showColumnHeaders |-> TRUE,
                 defaultRowHeight |-> 24, defaultColumnWidth |-> 100,
                 hiddenRows |-> <<>>, hiddenColumns |-> <<>> ],
      cells |-> EmptyObj,
      images |-> <<>>,
      shapes |-> <<>>,
      charts |-> <<>>,
      links |-> <<>>,
      symbols |-> <<>>,
      conditionalFormatting |-> <<>> ]

createInitialState(now) ==
    [ documentId |-> <<"doc-", now>>,
      metadata |-> [ documentId |-> <<"doc-", now>>,
                     title |-> "Untitled Spreadsheet",
                     owner |-> "anonymous",
                     createdAt |-> now,
                     updatedAt |-> now,
                     theme |-> "light",
                     sheetCount |-> 1,
                     version |-> "1.0.0" ],
      sheets |-> << BlankSheet("sheet-1", "Sheet1") >>,
      activeSheetId |-> "sheet-1",
      settings |-> [ autoSave |-> TRUE,
                     autoSaveInterval |-> 30,
                     showFormulaBar |-> TRUE,
                     calculationMode |-> "auto",
                     r1c1ReferenceStyle |-> FALSE ],
      versionHistory |-> <<>> ]

----------------------------------------------------------------------------
(* The reducer, one operator per case of documentReducer(state, action).   *)
(* s is the state, a the action, now the value of new Date().              *)

\* metadata: { ...state.metadata, updatedAt: new Date().toISOString() }
Touch(s, now) == [s.metadata EXCEPT !.updatedAt = now]

\* state.sheets.map(sheet => sheet.sheetId === sheetId ? changed : sheet), where
\* changed[i] is the changed form of the sheet at position i
MapSheet(s, sheetId, changed) ==
    [i \in 1..Len(s.sheets) |->
        IF s.sheets[i].sheetId = sheetId THEN changed[i] ELSE s.sheets[i]]

\* SET_DOCUMENT that keeps the version history of the state it replaces
SetDocumentCaseKeepHistory(s, a, now) ==
    SetKey(a.payload, "versionHistory",
           IF "versionHistory" \in DOMAIN s THEN s.versionHistory ELSE <<>>)

SetDocumentCase(s, a, now) == a.payload

\* UPDATE_METADATA in which an updatedAt of the payload wins over the current time
UpdateMetadataCasePayloadFirst(s, a, now) ==
    [s EXCEPT !.metadata = Merge(SetKey(s.metadata, "updatedAt", now), a.payload)]

UpdateMetadataCase(s, a, now) ==
    [s EXCEPT !.metadata = SetKey(Merge(s.metadata, a.payload), "updatedAt", now)]

\* ADD_SHEET that puts the new sheet first
AddSheetCaseFirst(s, a, now) ==
    [s EXCEPT !.sheets = <<a.payload>> \o s.sheets,
              !.metadata = [s.metadata EXCEPT !.sheetCount = Len(s.sheets) + 1,
                                              !.updatedAt = now]]

AddSheetCase(s, a, now) ==
    [s EXCEPT !.sheets = Append(s.sheets, a.payload),
              !.metadata = [s.metadata EXCEPT !.sheetCount = Len(s.sheets) + 1,
                                              !.updatedAt = now]]

\* filteredSheets[0]?.sheetId || ''
FirstSheetIdOrEmpty(filteredSheets) ==
    IF Len(filteredSheets) > 0 /\ filteredSheets[1].sheetId # ""
    THEN filteredSheets[1].sheetId
    ELSE ""

\* REMOVE_SHEET that counts one sheet less instead of counting the sheets left
RemoveSheetCaseDecrement(s, a, now) ==
    LET filteredSheets == SelectSeq(s.sheets, LAMBDA sh : sh.sheetId # a.payload)
    IN  [s EXCEPT !.sheets = filteredSheets,
                  !.activeSheetId = IF s.activeSheetId = a.payload
                                    THEN FirstSheetIdOrEmpty(filteredSheets)
                                    ELSE s.activeSheetId,
                  !.metadata = [s.metadata EXCEPT !.sheetCount = Len(s.sheets) - 1,
                                                  !.updatedAt = now]]

\* REMOVE_SHEET that leaves activeSheetId alone
RemoveSheetCaseKeepActive(s, a, now) ==
    LET filteredSheets == SelectSeq(s.sheets, LAMBDA sh : sh.sheetId # a.payload)
    IN  [s EXCEPT !.sheets = filteredSheets,
                  !.metadata = [s.metadata EXCEPT !.sheetCount = Len(filteredSheets),
                                                  !.updatedAt = now]]

RemoveSheetCase(s, a, now) ==
    LET filteredSheets == SelectSeq(s.sheets, LAMBDA sh : sh.sheetId # a.payload)
    IN  [s EXCEPT !.sheets = filteredSheets,
                  !.activeSheetId = IF s.activeSheetId = a.payload
                                    THEN FirstSheetIdOrEmpty(filteredSheets)
                                    ELSE s.activeSheetId,
                  !.metadata = [s.metadata EXCEPT !.sheetCount = Len(filteredSheets),
                                                  !.updatedAt = now]]

RenameSheetCase(s, a, now) ==
    LET F(sheet) == [sheet EXCEPT !.name = a.payload.name]
    IN  [s EXCEPT !.sheets = MapSheet(s, a.payload.sheetId,
                                      [i \in 1..Len(s.sheets) |-> F(s.sheets[i])]),
                  !.metadata = Touch(s, now)]

SetActiveSheetCase(s, a, now) == [s EXCEPT !.activeSheetId = a.payload]

\* { ...sheet.cells[cellKey] }: the cell's fields, none when there is no such cell
CellSpread(sheet, cellKey) ==
    IF cellKey \in DOMAIN sheet.cells THEN sheet.cells[cellKey] ELSE EmptyObj

\* { ...sheet.cells[cellKey]?.style }
StyleSpread(sheet, cellKey) ==
    IF cellKey \in DOMAIN sheet.cells /\ "style" \in DOMAIN sheet.cells[cellKey]
    THEN sheet.cells[cellKey].style
    ELSE EmptyObj

\* UPDATE_CELL that stores the payload as the cell, dropping the cell's other fields
UpdateCellCaseReplace(s, a, now) ==
    LET F(sheet) ==
            [sheet EXCEPT !.cells = SetKey(sheet.cells, a.payload.cellKey, a.payload.data)]
    IN  [s EXCEPT !.sheets = MapSheet(s, a.payload.sheetId,
                                      [i \in 1..Len(s.sheets) |-> F(s.sheets[i])]),
                  !.metadata = Touch(s, now)]

UpdateCellCase(s, a, now) ==
    LET F(sheet) ==
            [sheet EXCEPT !.cells =
                SetKey(sheet.cells, a.payload.cellKey,
                       Merge(CellSpread(sheet, a.payload.cellKey), a.payload.data))]
    IN  [s EXCEPT !.sheets = MapSheet(s, a.payload.sheetId,
                                      [i \in 1..Len(s.sheets) |-> F(s.sheets[i])]),
                  !.metadata = Touch(s, now)]

\* Object.entries(cells).reduce((acc, [key, data]) => { acc[key] = {...sheet.cells[key], ...data} }, {})
ReduceEntries(sheet, cells) ==
    [key \in DOMAIN cells |-> Merge(CellSpread(sheet, key), cells[key])]

\* UPDATE_CELLS that stores each entry as the cell, dropping the cell's other fields
UpdateCellsCaseReplace(s, a, now) ==
    LET F(sheet) == [sheet EXCEPT !.cells = Merge(sheet.cells, a.payload.cells)]
    IN  [s EXCEPT !.sheets = MapSheet(s, a.payload.sheetId,
                                      [i \in 1..Len(s.sheets) |-> F(s.sheets[i])]),
                  !.metadata = Touch(s, now)]

UpdateCellsCase(s, a, now) ==
    LET F(sheet) ==
            [sheet EXCEPT !.cells = Merge(sheet.cells, ReduceEntries(sheet, a.payload.cells))]
    IN  [s EXCEPT !.sheets = MapSheet(s, a.payload.sheetId,
                                      [i \in 1..Len(s.sheets) |-> F(s.sheets[i])]),
                  !.metadata = Touch(s, now)]

\* SET_CELL_STYLE that replaces the style object by the payload
SetCellStyleCaseReplace(s, a, now) ==
    LET F(sheet) ==
            [sheet EXCEPT !.cells =
                SetKey(sheet.cells, a.payload.cellKey,
                       SetKey(CellSpread(sheet, a.payload.cellKey), "style",
                              a.payload.style))]
    IN  [s EXCEPT !.sheets = MapSheet(s, a.payload.sheetId,
                                      [i \in 1..Len(s.sheets) |-> F(s.sheets[i])]),
                  !.metadata = Touch(s, now)]

SetCellStyleCase(s, a, now) ==
    LET F(sheet) ==
            [sheet EXCEPT !.cells =
                SetKey(sheet.cells, a.payload.cellKey,
                       SetKey(CellSpread(sheet, a.payload.cellKey), "style",
                              Merge(StyleSpread(sheet, a.payload.cellKey), a.payload.style)))]
    IN  [s EXCEPT !.sheets = MapSheet(s, a.payload.sheetId,
                                      [i \in 1..Len(s.sheets) |-> F(s.sheets[i])]),
                  !.metadata = Touch(s, now)]

AddImageCase(s, a, now) ==
    LET F(sheet) == [sheet EXCEPT !.images = Append(sheet.images, a.payload.image)]
    IN  [s EXCEPT !.sheets = MapSheet(s, a.payload.sheetId,
                                      [i \in 1..Len(s.sheets) |-> F(s.sheets[i])]),
                  !.metadata = Touch(s, now)]

\* UPDATE_IMAGE that adds the image when no image has the id
UpdateImageCaseUpsert(s, a, now) ==
    LET G(img) == IF img.id = a.payload.imageId THEN Merge(img, a.payload.updates) ELSE img
        F(sheet) ==
            IF \E k \in 1..Len(sheet.images) : sheet.images[k].id = a.payload.imageId
            THEN [sheet EXCEPT !.images = [k \in 1..Len(sheet.images) |-> G(sheet.images[k])]]
            ELSE [sheet EXCEPT !.images =
                     Append(sheet.images, SetKey(a.payload.updates, "id", a.payload.imageId))]
    IN  [s EXCEPT !.sheets = MapSheet(s, a.payload.sheetId,
                                      [i \in 1..Len(s.sheets) |-> F(s.sheets[i])]),
                  !.metadata = Touch(s, now)]

UpdateImageCase(s, a, now) ==
    LET G(img) == IF img.id = a.payload.imageId THEN Merge(img, a.payload.updates) ELSE img
        F(sheet) == [sheet EXCEPT !.images = [k \in 1..Len(sheet.images) |-> G(sheet.images[k])]]
    IN  [s EXCEPT !.sheets = MapSheet(s, a.payload.sheetId,
                                      [i \in 1..Len(s.sheets) |-> F(s.sheets[i])]),
                  !.metadata = Touch(s, now)]

RemoveImageCase(s, a, now) ==
    LET F(sheet) ==
            [sheet EXCEPT !.images =
                SelectSeq(sheet.images, LAMBDA img : img.id # a.payload.imageId)]
    IN  [s EXCEPT !.sheets = MapSheet(s, a.payload.sheetId,
                                      [i \in 1..Len(s.sheets) |-> F(s.sheets[i])]),
                  !.metadata = Touch(s, now)]

AddChartCase(s, a, now) ==
    LET F(sheet) == [sheet EXCEPT !.charts = Append(sheet.charts, a.payload.chart)]
    IN  [s EXCEPT !.sheets = MapSheet(s, a.payload.sheetId,
                                      [i \in 1..Len(s.sheets) |-> F(s.sheets[i])]),
                  !.metadata = Touch(s, now)]

UpdateChartCase(s, a, now) ==
    LET G(chart) ==
            IF chart.id = a.payload.chartId THEN Merge(chart, a.payload.updates) ELSE chart
        F(sheet) == [sheet EXCEPT !.charts = [k \in 1..Len(sheet.charts) |-> G(sheet.charts[k])]]
    IN  [s EXCEPT !.sheets = MapSheet(s, a.payload.sheetId,
                                      [i \in 1..Len(s.sheets) |-> F(s.sheets[i])]),
                  !.metadata = Touch(s, now)]

RemoveChartCase(s, a, now) ==
    LET F(sheet) ==
            [sheet EXCEPT !.charts =
                SelectSeq(sheet.charts, LAMBDA chart : chart.id # a.payload.chartId)]
    IN  [s EXCEPT !.sheets = MapSheet(s, a.payload.sheetId,
                                      [i \in 1..Len(s.sheets) |-> F(s.sheets[i])]),
                  !.metadata = Touch(s, now)]

UpdateGridConfigCase(s, a, now) ==
    LET F(sheet) == [sheet EXCEPT !.grid = Merge(sheet.grid, a.payload.config)]
    IN  [s EXCEPT !.sheets = MapSheet(s, a.payload.sheetId,
                                      [i \in 1..Len(s.sheets) |-> F(s.sheets[i])]),
                  !.metadata = Touch(s, now)]

SetRowSizeCase(s, a, now) ==
    LET F(sheet) ==
            [sheet EXCEPT !.grid.rowSizes =
                SetKey(sheet.grid.rowSizes, a.payload.rowIndex, a.payload.size)]
    IN  [s EXCEPT !.sheets = MapSheet(s, a.payload.sheetId,
                                      [i \in 1..Len(s.sheets) |-> F(s.sheets[i])]),
                  !.metadata = Touch(s, now)]

SetColumnSizeCase(s, a, now) ==
    LET F(sheet) ==
            [sheet EXCEPT !.grid.columnSizes =
                SetKey(sheet.grid.columnSizes, a.payload.colIndex, a.payload.size)]
    IN  [s EXCEPT !.sheets = MapSheet(s, a.payload.sheetId,
                                      [i \in 1..Len(s.sheets) |-> F(s.sheets[i])]),
                  !.metadata = Touch(s, now)]

AddConditionalFormatCase(s, a, now) ==
    LET F(sheet) ==
            [sheet EXCEPT !.conditionalFormatting =
                Append(sheet.conditionalFormatting, a.payload.format)]
    IN  [s EXCEPT !.sheets = MapSheet(s, a.payload.sheetId,
                                      [i \in 1..Len(s.sheets) |-> F(s.sheets[i])]),
                  !.metadata = Touch(s, now)]

RemoveConditionalFormatCase(s, a, now) ==
    LET F(sheet) ==
            [sheet EXCEPT !.conditionalFormatting =
                SelectSeq(sheet.conditionalFormatting,
                          LAMBDA cf : cf.id # a.payload.formatId)]
    IN  [s EXCEPT !.sheets = MapSheet(s, a.payload.sheetId,
                                      [i \in 1..Len(s.sheets) |-> F(s.sheets[i])]),
                  !.metadata = Touch(s, now)]

SetDataValidationCase(s, a, now) ==
    LET F(sheet) ==
            [sheet EXCEPT !.cells =
                SetKey(sheet.cells, a.payload.cellKey,
                       SetKey(CellSpread(sheet, a.payload.cellKey), "validation",
                              a.payload.validation))]
    IN  [s EXCEPT !.sheets = MapSheet(s, a.payload.sheetId,
                                      [i \in 1..Len(s.sheets) |-> F(s.sheets[i])]),
                  !.metadata = Touch(s, now)]

\* action.payload.sparkline || undefined (a SparklineConfig is truthy, null is not)
SparklineOrUndefined(sparkline) ==
    IF sparkline = Null \/ sparkline = Undefined THEN Undefined ELSE sparkline

\* SET_SPARKLINE that keeps the cell's sparkline when the payload's is null
SetSparklineCaseKeep(s, a, now) ==
    LET F(sheet) ==
            [sheet EXCEPT !.cells =
                SetKey(sheet.cells, a.payload.cellKey,
                       IF a.payload.sparkline = Null
                       THEN CellSpread(sheet, a.payload.cellKey)
                       ELSE SetKey(CellSpread(sheet, a.payload.cellKey), "sparkline",
                                   a.payload.sparkline))]
    IN  [s EXCEPT !.sheets = MapSheet(s, a.payload.sheetId,
                                      [i \in 1..Len(s.sheets) |-> F(s.sheets[i])]),
                  !.metadata = Touch(s, now)]

SetSparklineCase(s, a, now) ==
    LET F(sheet) ==
            [sheet EXCEPT !.cells =
                SetKey(sheet.cells, a.payload.cellKey,
                       SetKey(CellSpread(sheet, a.payload.cellKey), "sparkline",
                              SparklineOrUndefined(a.payload.sparkline)))]
    IN  [s EXCEPT !.sheets = MapSheet(s, a.payload.sheetId,
                                      [i \in 1..Len(s.sheets) |-> F(s.sheets[i])]),
                  !.metadata = Touch(s, now)]

\* PROTECT_SHEET that also drops the sheet's cell locks
ProtectSheetCaseResetLocks(s, a, now) ==
    LET F(sheet) ==
            SetKey(SetKey(SetKey(sheet, "protected", a.payload.protected),
                          "protectionPassword", a.payload.password),
                   "cellLocks", EmptyObj)
    IN  [s EXCEPT !.sheets = MapSheet(s, a.payload.sheetId,
                                      [i \in 1..Len(s.sheets) |-> F(s.sheets[i])]),
                  !.metadata = Touch(s, now)]

\* PROTECT_SHEET that leaves a password-protected sheet alone unless the payload
\* carries the stored password
ProtectSheetCaseChecked(s, a, now) ==
    LET Allowed(sheet) ==
            \/ "protectionPassword" \notin DOMAIN sheet
            \/ sheet.protectionPassword = Undefined
            \/ sheet.protectionPassword = a.payload.password
        F(sheet) ==
            IF Allowed(sheet)
            THEN SetKey(SetKey(sheet, "protected", a.payload.protected),
                        "protectionPassword", a.payload.password)
            ELSE sheet
    IN  [s EXCEPT !.sheets = MapSheet(s, a.payload.sheetId,
                                      [i \in 1..Len(s.sheets) |-> F(s.sheets[i])]),
                  !.metadata = Touch(s, now)]

ProtectSheetCase(s, a, now) ==
    LET F(sheet) ==
            SetKey(SetKey(sheet, "protected", a.payload.protected),
                   "protectionPassword", a.payload.password)
    IN  [s EXCEPT !.sheets = MapSheet(s, a.payload.sheetId,
                                      [i \in 1..Len(s.sheets) |-> F(s.sheets[i])]),
                  !.metadata = Touch(s, now)]

\* cellKeys.reduce((acc, cellKey) => ({ ...acc, [cellKey]: locked }), {}), from index i
RECURSIVE ReduceCellKeys(_, _, _, _)
ReduceCellKeys(acc, cellKeys, locked, i) ==
    IF i > Len(cellKeys)
    THEN acc
    ELSE ReduceCellKeys(SetKey(acc, cellKeys[i], locked), cellKeys, locked, i + 1)

\* sheet.cellLocks || {}
CellLocksOrEmpty(sheet) ==
    IF "cellLocks" \in DOMAIN sheet THEN sheet.cellLocks ELSE EmptyObj

\* LOCK_CELLS that stores the payload's entries as the sheet's cellLocks
LockCellsCaseReplace(s, a, now) ==
    LET F(sheet) ==
            SetKey(sheet, "cellLocks",
                   ReduceCellKeys(EmptyObj, a.payload.cellKeys, a.payload.locked, 1))
    IN  [s EXCEPT !.sheets = MapSheet(s, a.payload.sheetId,
                                      [i \in 1..Len(s.sheets) |-> F(s.sheets[i])]),
                  !.metadata = Touch(s, now)]

LockCellsCase(s, a, now) ==
    LET F(sheet) ==
            SetKey(sheet, "cellLocks",
                   Merge(CellLocksOrEmpty(sheet),
                         ReduceCellKeys(EmptyObj, a.payload.cellKeys, a.payload.locked, 1)))
    IN  [s EXCEPT !.sheets = MapSheet(s, a.payload.sheetId,
                                      [i \in 1..Len(s.sheets) |-> F(s.sheets[i])]),
                  !.metadata = Touch(s, now)]

\* RESTORE_FROM_IPFS that stamps the restored document like the editing cases do
RestoreFromIPFSCaseTouch(s, a, now) ==
    [a.payload EXCEPT !.metadata = [a.payload.metadata EXCEPT !.updatedAt = now]]

\* RESTORE_FROM_IPFS that keeps the version history of the state it replaces
RestoreFromIPFSCaseKeepHistory(s, a, now) ==
    SetKey(a.payload, "versionHistory",
           IF "versionHistory" \in DOMAIN s THEN s.versionHistory ELSE <<>>)

RestoreFromIPFSCase(s, a, now) == a.payload

\* a default case that stamps the state like the editing cases do
DefaultCaseTouch(s, a, now) == [s EXCEPT !.metadata = Touch(s, now)]

\* default: return state
DefaultCase(s, a, now) == s

\* the action types that have a case: each returns a new state object
HandledTypes ==
    {"SET_DOCUMENT", "UPDATE_METADATA", "ADD_SHEET", "REMOVE_SHEET", "RENAME_SHEET",
     "SET_ACTIVE_SHEET", "UPDATE_CELL", "UPDATE_CELLS", "SET_CELL_STYLE", "ADD_IMAGE",
     "UPDATE_IMAGE", "REMOVE_IMAGE", "ADD_CHART", "UPDATE_CHART", "REMOVE_CHART",
     "UPDATE_GRID_CONFIG", "SET_ROW_SIZE", "SET_COLUMN_SIZE", "ADD_CONDITIONAL_FORMAT",
     "REMOVE_CONDITIONAL_FORMAT", "SET_DATA_VALIDATION", "SET_SPARKLINE",
     "PROTECT_SHEET", "LOCK_CELLS", "RESTORE_FROM_IPFS"}

documentReducer(s, a, now) ==
    CASE a.type = "SET_DOCUMENT" -> SetDocumentCase(s, a, now)
      [] a.type = "UPDATE_METADATA" -> UpdateMetadataCase(s, a, now)
      [] a.type = "ADD_SHEET" -> AddSheetCase(s, a, now)
      [] a.type = "REMOVE_SHEET" -> RemoveSheetCase(s, a, now)
      [] a.type = "RENAME_SHEET" -> RenameSheetCase(s, a, now)
      [] a.type = "SET_ACTIVE_SHEET" -> SetActiveSheetCase(s, a, now)
      [] a.type = "UPDATE_CELL" -> UpdateCellCase(s, a, now)
      [] a.type = "UPDATE_CELLS" -> UpdateCellsCase(s, a, now)
      [] a.type = "SET_CELL_STYLE" -> SetCellStyleCase(s, a, now)
      [] a.type = "ADD_IMAGE" -> AddImageCase(s, a, now)
      [] a.type = "UPDATE_IMAGE" -> UpdateImageCase(s, a, now)
      [] a.type = "REMOVE_IMAGE" -> RemoveImageCase(s, a, now)
      [] a.type = "ADD_CHART" -> AddChartCase(s, a, now)
      [] a.type = "UPDATE_CHART" -> UpdateChartCase(s, a, now)
      [] a.type = "REMOVE_CHART" -> RemoveChartCase(s, a, now)
      [] a.type = "UPDATE_GRID_CONFIG" -> UpdateGridConfigCase(s, a, now)
      [] a.type = "SET_ROW_SIZE" -> SetRowSizeCase(s, a, now)
      [] a.type = "SET_COLUMN_SIZE" -> SetColumnSizeCase(s, a, now)
      [] a.type = "ADD_CONDITIONAL_FORMAT" -> AddConditionalFormatCase(s, a, now)
      [] a.type = "REMOVE_CONDITIONAL_FORMAT" -> RemoveConditionalFormatCase(s, a, now)
      [] a.type = "SET_DATA_VALIDATION" -> SetDataValidationCase(s, a, now)
      [] a.type = "SET_SPARKLINE" -> SetSparklineCase(s, a, now)
      [] a.type = "PROTECT_SHEET" -> ProtectSheetCase(s, a, now)
      [] a.type = "LOCK_CELLS" -> LockCellsCase(s, a, now)
      [] a.type = "RESTORE_FROM_IPFS" -> RestoreFromIPFSCase(s, a, now)
      [] OTHER -> DefaultCase(s, a, now)

----------------------------------------------------------------------------
(* Derived queries of the provider *)

\* state.sheets.find(s => s.sheetId === sheetId): its index, 0 when there is none
FindSheet(s, sheetId) ==
    IF \E i \in 1..Len(s.sheets) : s.sheets[i].sheetId = sheetId
    THEN CHOOSE i \in 1..Len(s.sheets) :
            /\ s.sheets[i].sheetId = sheetId
            /\ \A j \in 1..(i - 1) : s.sheets[j].sheetId # sheetId
    ELSE 0

\* sheet.protected is truthy
Protected(sheet) == "protected" \in DOMAIN sheet /\ sheet.protected

\* sheet.cellLocks?.[cellKey] || false
CellLockOrFalse(sheet, cellKey) ==
    IF "cellLocks" \in DOMAIN sheet /\ cellKey \in DOMAIN sheet.cellLocks
    THEN sheet.cellLocks[cellKey]
    ELSE FALSE

\* isCellLocked that lets a cell's own lock entry decide before the sheet's protection
isCellLockedEntryFirst(s, sheetId, cellKey) ==
    LET i == FindSheet(s, sheetId)
    IN  IF i = 0 THEN FALSE
        ELSE IF "cellLocks" \in DOMAIN s.sheets[i] /\ cellKey \in DOMAIN s.sheets[i].cellLocks
        THEN s.sheets[i].cellLocks[cellKey]
        ELSE Protected(s.sheets[i])

isCellLocked(s, sheetId, cellKey) ==
    LET i == FindSheet(s, sheetId)
    IN  IF i = 0 THEN FALSE
        ELSE IF Protected(s.sheets[i]) THEN TRUE
        ELSE CellLockOrFalse(s.sheets[i], cellKey)

isSheetProtected(s, sheetId) ==
    LET i == FindSheet(s, sheetId)
    IN  IF i = 0 THEN FALSE ELSE Protected(s.sheets[i])

----------------------------------------------------------------------------
(* The auto-save effect of the provider.  It runs after the first render   *)
(* and after every render in which state, autoSaveEnabled or saveToIPFS    *)
(* has changed; the cleanup that the previous run returned runs first.     *)

\* state.settings?.autoSave is truthy
DocumentAutoSave(s) ==
    /\ "settings" \in DOMAIN s
    /\ "autoSave" \in DOMAIN s.settings
    /\ s.settings.autoSave

\* a guard that looks at the provider's flag alone
AutoSaveActiveProviderOnly(s, enabled) == enabled

\* the negation of the guard: !autoSaveEnabled || !state.settings?.autoSave
AutoSaveActive(s, enabled) == enabled /\ DocumentAutoSave(s)

\* (state.settings?.autoSaveInterval || 30) * 1000
AutoSaveDelay(s) ==
    (IF /\ "settings" \in DOMAIN s
        /\ "autoSaveInterval" \in DOMAIN s.settings
        /\ s.settings.autoSaveInterval # 0
     THEN s.settings.autoSaveInterval
     ELSE 30) * 1000

\* clearTimeout(ref.current), guarded by if (ref.current)
ClearTimeout(pending, ref) ==
    IF ref = <<>> THEN pending ELSE [id \in DOMAIN pending \ {ref[1]} |-> pending[id]]

\* the id that setTimeout returns: one that no pending timer has
NextTimerId(pending) ==
    CHOOSE id \in 1..(Cardinality(DOMAIN pending) + 1) :
        /\ id \notin DOMAIN pending
        /\ \A lower \in 1..(id - 1) : lower \in DOMAIN pending

\* setTimeout(() => saveToIPFS().catch(console.error), interval)
SetTimeout(pending, id, s) ==
    [k \in DOMAIN pending \cup {id} |->
        IF k = id THEN [remaining |-> AutoSaveDelay(s), closure |-> s] ELSE pending[k]]

\* the cleanup of the run for (prev, prevEnabled), if that run returned one
AutoSaveCleanup(pending, ref, prev, prevEnabled) ==
    IF AutoSaveActive(prev, prevEnabled) THEN ClearTimeout(pending, ref) ELSE pending

\* an effect that arms a new timer without clearing the pending one
AutoSaveEffectNoClear(prev, prevEnabled, next, nextEnabled) ==
    IF ~AutoSaveActive(next, nextEnabled)
    THEN UNCHANGED <<timers, autoSaveTimerRef>>
    ELSE LET id == NextTimerId(timers)
         IN  /\ timers' = SetTimeout(timers, id, next)
             /\ autoSaveTimerRef' = <<id>>

\* the render of (next, nextEnabled) follows that of (prev, prevEnabled)
AutoSaveEffect(prev, prevEnabled, next, nextEnabled) ==
    LET cleaned == AutoSaveCleanup(timers, autoSaveTimerRef, prev, prevEnabled)
    IN  IF ~AutoSaveActive(next, nextEnabled)
        THEN /\ timers' = cleaned
             /\ UNCHANGED autoSaveTimerRef
        ELSE LET cleared == ClearTimeout(cleaned, autoSaveTimerRef)
                 id == NextTimerId(cleared)
             IN  /\ timers' = SetTimeout(cleared, id, next)
                 /\ autoSaveTimerRef' = <<id>>

\* a render with the new state next
Render(next) ==
    /\ AutoSaveEffect(state, autoSaveEnabled, next, autoSaveEnabled)
    /\ sinceChange' = 0

----------------------------------------------------------------------------
(* Dispatch *)

Action(type, payload) == [type |-> type, payload |-> payload]

\* the record of a save or load that completes: what it is, who started it, and how
\* it ends for its caller (resolved, rejected, or caught by the timer callback)
Outcome(op, by, result) == [op |-> op, by |-> by, result |-> result]

\* no save or load has completed in the last step
NoOutcome == Outcome("none", "none", "none")

\* dispatch(action): React applies the reducer to the current state and renders
\* again, unless the reducer has returned the state object it was given
DispatchAs(a, outcome) ==
    LET next == documentReducer(state, a, clock)
    IN  /\ mounted
        /\ state' = next
        /\ lastAction' = a
        /\ prevState' = state
        /\ IF a.type \in HandledTypes THEN Render(next) ELSE UNCHANGED schedVars
        /\ settled' = outcome

\* a dispatch by a component
Dispatch(a) == DispatchAs(a, NoOutcome)

SheetIds == {"sheet-1", "sheet-2", "sheet-3"}


\* the provider is mounted: useReducer(documentReducer, createInitialState())
InitProvider ==
    /\ clock = 0
    /\ state = createInitialState(0)
    /\ lastAction = [type |-> "@@INIT"]
    /\ prevState = state
    /\ store = <<>>
    /\ savedAs = <<>>
    /\ saves = <<>>
    /\ loads = <<>>
    /\ lastCid = 0
    /\ autoSaveEnabled = TRUE
    /\ mounted = TRUE
    /\ timers = SetTimeout(<<>>, 1, state)
    /\ autoSaveTimerRef = <<1>>
    /\ sinceChange = 0
    /\ firings = 0
    /\ fired = <<>>
    /\ settled = NoOutcome

Init ==
    /\ InitProvider
    /\ column = <<>>
    /\ colIndex = <<>>
    /\ NoSync

\* time passes
Tick ==
    /\ clock < MaxClock
    /\ clock' = clock + 1
    /\ settled' = NoOutcome
    /\ UNCHANGED <<docVars, persistVars, columnVars, syncVars, schedVars, propVars, firings, fired>>

AddSheet ==
    /\ Len(state.sheets) < MaxSheets
    /\ \E id \in SheetIds :
          Dispatch(Action("ADD_SHEET", BlankSheet(id, "Sheet")))
    /\ UNCHANGED <<clock, persistVars, columnVars, syncVars, propVars, firings, fired>>

RemoveSheet ==
    /\ \E id \in SheetIds : Dispatch(Action("REMOVE_SHEET", id))
    /\ UNCHANGED <<clock, persistVars, columnVars, syncVars, propVars, firings, fired>>

NextSheets == Tick \/ AddSheet \/ RemoveSheet

SpecSheets == Init /\ [][NextSheets]_vars

\* C1: after every action of a sequence of ADD_SHEET and REMOVE_SHEET actions on the
\* initial document, metadata.sheetCount is the number of elements of sheets.
C1_SheetCountIsLength == state.metadata.sheetCount = Len(state.sheets)

\* a REMOVE_SHEET of an id that no sheet has, on a full document
C1_Witness ==
    /\ lastAction.type = "REMOVE_SHEET"
    /\ \A i \in 1..Len(prevState.sheets) : prevState.sheets[i].sheetId # lastAction.payload
    /\ Len(state.sheets) = 2
    /\ state.metadata.sheetCount = 2

\* the sheets of s other than those with the given id, in order
SheetsWithout(s, id) == SelectSeq(s.sheets, LAMBDA sh : sh.sheetId # id)

\* C2: REMOVE_SHEET of the active sheet's id makes the first remaining sheet active,
\* or sets activeSheetId to the empty string when no sheet remains; REMOVE_SHEET of
\* another id leaves activeSheetId unchanged.
C2_RemoveReassignsActive ==
    lastAction.type = "REMOVE_SHEET" =>
        LET remaining == SheetsWithout(prevState, lastAction.payload)
        IN  IF prevState.activeSheetId = lastAction.payload
            THEN IF Len(remaining) = 0
                 THEN state.activeSheetId = ""
                 ELSE state.activeSheetId = remaining[1].sheetId
            ELSE state.activeSheetId = prevState.activeSheetId

\* the active sheet was removed and another sheet took over
C2_Witness ==
    /\ lastAction.type = "REMOVE_SHEET"
    /\ prevState.activeSheetId = lastAction.payload
    /\ Len(prevState.sheets) = 2
    /\ Len(state.sheets) = 1
    /\ state.activeSheetId = state.sheets[1].sheetId
    /\ state.activeSheetId # prevState.activeSheetId

----------------------------------------------------------------------------
(* Cell edits on the initial document *)

\* the sheet of the initial document, and an id that no sheet has
TargetSheetIds == {"sheet-1", "sheet-2"}

CellKeys == {"A1", "B1"}

\* the fields of CellData and of CellStyle
CellFields ==
    {"value", "formula", "type", "style", "comment", "hyperlink", "validation",
     "mergedWith", "isMergeParent", "mergeSpan", "locked", "hidden", "sparkline"}

StyleFields ==
    {"fontFamily", "fontSize", "bold", "italic", "underline", "strikethrough",
     "textColor", "backgroundColor", "border", "alignment", "numberFormat",
     "rotation", "wrapText", "verticalAlignment", "indent"}

\* Partial<CellStyle> payloads
StylePayloads == { [italic |-> TRUE], [bold |-> FALSE] }

\* Partial<CellData> payloads
CellPayloads ==
    { [value |-> "x", style |-> [bold |-> TRUE, fontSize |-> 12]],
      [value |-> "y"],
      [formula |-> "=1+2"] }

\* { [cellKey]: Partial<CellData> } payloads of UPDATE_CELLS
CellsPayloads ==
    UNION { [keys -> {[value |-> "1"], [style |-> [italic |-> TRUE]]}] :
                keys \in (SUBSET CellKeys) \ {{}} }

SparklinePayloads == {Null, "line:A1:A10"}

UpdateCell ==
    /\ \E sheetId \in TargetSheetIds, cellKey \in CellKeys, data \in CellPayloads :
          Dispatch(Action("UPDATE_CELL",
                          [sheetId |-> sheetId, cellKey |-> cellKey, data |-> data]))
    /\ UNCHANGED <<clock, persistVars, columnVars, syncVars, propVars, firings, fired>>

UpdateCells ==
    /\ \E sheetId \in TargetSheetIds, cells \in CellsPayloads :
          Dispatch(Action("UPDATE_CELLS", [sheetId |-> sheetId, cells |-> cells]))
    /\ UNCHANGED <<clock, persistVars, columnVars, syncVars, propVars, firings, fired>>

SetCellStyle ==
    /\ \E sheetId \in TargetSheetIds, cellKey \in CellKeys, style \in StylePayloads :
          Dispatch(Action("SET_CELL_STYLE",
                          [sheetId |-> sheetId, cellKey |-> cellKey, style |-> style]))
    /\ UNCHANGED <<clock, persistVars, columnVars, syncVars, propVars, firings, fired>>

SetSparkline ==
    /\ \E sheetId \in TargetSheetIds, cellKey \in CellKeys, sparkline \in SparklinePayloads :
          Dispatch(Action("SET_SPARKLINE",
                          [sheetId |-> sheetId, cellKey |-> cellKey,
                           sparkline |-> sparkline]))
    /\ UNCHANGED <<clock, persistVars, columnVars, syncVars, propVars, firings, fired>>

NextCells == UpdateCell \/ UpdateCells

SpecCells == Init /\ [][NextCells]_vars

NextStyles == UpdateCell \/ SetCellStyle

SpecStyles == Init /\ [][NextStyles]_vars

NextSparkline == UpdateCell \/ SetSparkline

SpecSparkline == Init /\ [][NextSparkline]_vars

\* the indices of the sheets of s that an action on sheetId changes
Targets(s, sheetId) == {i \in 1..Len(s.sheets) : s.sheets[i].sheetId = sheetId}

\* new holds for field what old held: the same value, or not set in both
KeepsField(old, new, field) ==
    /\ (field \in DOMAIN new) = (field \in DOMAIN old)
    /\ field \in DOMAIN old => new[field] = old[field]

\* C3: UPDATE_CELL on an existing sheet leaves, under the cell key, the previous cell
\* (an empty cell if there was none) with every field of the payload set to the
\* payload's value and every other field as it was.
C3_UpdateCellMerges ==
    lastAction.type = "UPDATE_CELL" =>
        \A i \in Targets(prevState, lastAction.payload.sheetId) :
            LET cellKey == lastAction.payload.cellKey
                data == lastAction.payload.data
                old == CellSpread(prevState.sheets[i], cellKey)
            IN  /\ cellKey \in DOMAIN state.sheets[i].cells
                /\ DOMAIN state.sheets[i].cells[cellKey] \subseteq CellFields
                /\ \A field \in CellFields :
                      IF field \in DOMAIN data
                      THEN /\ field \in DOMAIN state.sheets[i].cells[cellKey]
                           /\ state.sheets[i].cells[cellKey][field] = data[field]
                      ELSE KeepsField(old, state.sheets[i].cells[cellKey], field)

\* a cell with a value and a style is given a new value only: the style stays
C3_Witness ==
    /\ lastAction.type = "UPDATE_CELL"
    /\ lastAction.payload.sheetId = "sheet-1"
    /\ lastAction.payload.cellKey = "A1"
    /\ lastAction.payload.data = [value |-> "y"]
    /\ "A1" \in DOMAIN prevState.sheets[1].cells
    /\ prevState.sheets[1].cells["A1"] =
          [value |-> "x", style |-> [bold |-> TRUE, fontSize |-> 12]]
    /\ state.sheets[1].cells["A1"] =
          [value |-> "y", style |-> [bold |-> TRUE, fontSize |-> 12]]

\* C4: SET_CELL_STYLE sets the style fields of the payload in the cell's style object,
\* keeps the style fields that the payload does not have, and keeps every other field
\* of the cell.
C4_SetCellStyleMergesStyle ==
    lastAction.type = "SET_CELL_STYLE" =>
        \A i \in Targets(prevState, lastAction.payload.sheetId) :
            LET cellKey == lastAction.payload.cellKey
                style == lastAction.payload.style
                old == CellSpread(prevState.sheets[i], cellKey)
                oldStyle == StyleSpread(prevState.sheets[i], cellKey)
            IN  /\ cellKey \in DOMAIN state.sheets[i].cells
                /\ "style" \in DOMAIN state.sheets[i].cells[cellKey]
                /\ DOMAIN state.sheets[i].cells[cellKey].style \subseteq StyleFields
                /\ \A field \in StyleFields :
                      IF field \in DOMAIN style
                      THEN /\ field \in DOMAIN state.sheets[i].cells[cellKey].style
                           /\ state.sheets[i].cells[cellKey].style[field] = style[field]
                      ELSE KeepsField(oldStyle, state.sheets[i].cells[cellKey].style, field)
                /\ \A field \in CellFields \ {"style"} :
                      KeepsField(old, state.sheets[i].cells[cellKey], field)

\* a bold cell of font size 12 with a value is made italic: it stays bold, size 12
C4_Witness ==
    /\ lastAction.type = "SET_CELL_STYLE"
    /\ lastAction.payload.sheetId = "sheet-1"
    /\ lastAction.payload.cellKey = "A1"
    /\ lastAction.payload.style = [italic |-> TRUE]
    /\ "A1" \in DOMAIN prevState.sheets[1].cells
    /\ prevState.sheets[1].cells["A1"] =
          [value |-> "x", formula |-> "=1+2", style |-> [bold |-> TRUE, fontSize |-> 12]]
    /\ state.sheets[1].cells["A1"] =
          [value |-> "x", formula |-> "=1+2",
           style |-> [bold |-> TRUE, fontSize |-> 12, italic |-> TRUE]]

\* the orders in which the entries of a payload mapping can be taken
Orders(keys) ==
    {order \in [1..Cardinality(keys) -> keys] :
        \A i, j \in 1..Cardinality(keys) : i # j => order[i] # order[j]}

\* the state after one UPDATE_CELL per entry of cells, taken in the given order from i
RECURSIVE UpdateCellEach(_, _, _, _, _)
UpdateCellEach(s, sheetId, cells, order, i) ==
    IF i > Len(order)
    THEN s
    ELSE UpdateCellEach(
             documentReducer(s, Action("UPDATE_CELL",
                 [sheetId |-> sheetId, cellKey |-> order[i], data |-> cells[order[i]]]),
                 clock),
             sheetId, cells, order, i + 1)

\* C5: the state after one UPDATE_CELLS action has the cells that one UPDATE_CELL per
\* entry of the payload, in any order, gives; the one transition applies all entries.
C5_UpdateCellsIsEachUpdateCell ==
    lastAction.type = "UPDATE_CELLS" =>
        \A order \in Orders(DOMAIN lastAction.payload.cells) :
            LET each == UpdateCellEach(prevState, lastAction.payload.sheetId,
                                       lastAction.payload.cells, order, 1)
            IN  /\ Len(each.sheets) = Len(state.sheets)
                /\ \A i \in 1..Len(state.sheets) :
                      state.sheets[i].cells = each.sheets[i].cells

\* a batch of two entries on two cells that had other fields: both are merged
C5_Witness ==
    /\ lastAction.type = "UPDATE_CELLS"
    /\ lastAction.payload.sheetId = "sheet-1"
    /\ lastAction.payload.cells =
          [A1 |-> [value |-> "1"], B1 |-> [style |-> [italic |-> TRUE]]]
    /\ DOMAIN prevState.sheets[1].cells = {"A1", "B1"}
    /\ prevState.sheets[1].cells["A1"] = [value |-> "y", formula |-> "=1+2"]
    /\ prevState.sheets[1].cells["B1"] = [value |-> "y"]
    /\ state.sheets[1].cells["A1"] = [value |-> "1", formula |-> "=1+2"]
    /\ state.sheets[1].cells["B1"] = [value |-> "y", style |-> [italic |-> TRUE]]

\* C8: SET_SPARKLINE with a null sparkline leaves the cell with no sparkline value and
\* its other fields as they were, and the same action applied again changes no cell.
C8_NullSparklineClearsOnce ==
    (lastAction.type = "SET_SPARKLINE" /\ lastAction.payload.sparkline = Null) =>
        /\ \A i \in Targets(prevState, lastAction.payload.sheetId) :
              LET cellKey == lastAction.payload.cellKey
                  old == CellSpread(prevState.sheets[i], cellKey)
              IN  /\ cellKey \in DOMAIN state.sheets[i].cells
                  /\ IsUndefined(state.sheets[i].cells[cellKey], "sparkline")
                  /\ \A field \in CellFields \ {"sparkline"} :
                        KeepsField(old, state.sheets[i].cells[cellKey], field)
        /\ LET again == documentReducer(state, lastAction, clock)
           IN  \A i \in 1..Len(state.sheets) : again.sheets[i].cells = state.sheets[i].cells

\* a cell that had a sparkline and a value is cleared by a null sparkline
C8_Witness ==
    /\ lastAction.type = "SET_SPARKLINE"
    /\ lastAction.payload.sparkline = Null
    /\ lastAction.payload.sheetId = "sheet-1"
    /\ lastAction.payload.cellKey = "A1"
    /\ "A1" \in DOMAIN prevState.sheets[1].cells
    /\ prevState.sheets[1].cells["A1"] = [value |-> "y", sparkline |-> "line:A1:A10"]
    /\ IsUndefined(state.sheets[1].cells["A1"], "sparkline")
    /\ state.sheets[1].cells["A1"].value = "y"

----------------------------------------------------------------------------
(* Sheet protection and cell locks on the initial document *)

\* protectSheet(sheetId, isProtected) is called without a password or with one
PasswordPayloads == {Undefined, "hash"}

\* string[] payloads of LOCK_CELLS
CellKeysPayloads == { <<"A1">>, <<"A1", "B1">> }

ProtectSheet ==
    /\ \E sheetId \in TargetSheetIds, protected \in BOOLEAN, password \in PasswordPayloads :
          Dispatch(Action("PROTECT_SHEET",
                          [sheetId |-> sheetId, protected |-> protected,
                           password |-> password]))
    /\ UNCHANGED <<clock, persistVars, columnVars, syncVars, propVars, firings, fired>>

LockCells ==
    /\ \E sheetId \in TargetSheetIds, cellKeys \in CellKeysPayloads, locked \in BOOLEAN :
          Dispatch(Action("LOCK_CELLS",
                          [sheetId |-> sheetId, cellKeys |-> cellKeys, locked |-> locked]))
    /\ UNCHANGED <<clock, persistVars, columnVars, syncVars, propVars, firings, fired>>

NextLocks == ProtectSheet \/ LockCells

SpecLocks == Init /\ [][NextLocks]_vars

\* C6: for the sheet that a sheet id names and every cell key, isCellLocked is true
\* exactly when the sheet's protected flag is true or its cellLocks maps the key to
\* true; when no sheet has the id it is false.
C6_LockedIffProtectedOrLockEntry ==
    \A sheetId \in TargetSheetIds, cellKey \in CellKeys \cup {"C1"} :
        /\ \A i \in 1..Len(state.sheets) :
              (/\ state.sheets[i].sheetId = sheetId
               /\ \A j \in 1..(i - 1) : state.sheets[j].sheetId # sheetId)
              => isCellLocked(state, sheetId, cellKey) =
                    (\/ ("protected" \in DOMAIN state.sheets[i]
                            /\ state.sheets[i].protected = TRUE)
                     \/ ("cellLocks" \in DOMAIN state.sheets[i]
                            /\ cellKey \in DOMAIN state.sheets[i].cellLocks
                            /\ state.sheets[i].cellLocks[cellKey] = TRUE))
        /\ (\A i \in 1..Len(state.sheets) : state.sheets[i].sheetId # sheetId)
              => ~isCellLocked(state, sheetId, cellKey)

\* a protected sheet whose cellLocks maps A1 to false reports A1 locked
C6_Witness ==
    /\ lastAction.type \in {"PROTECT_SHEET", "LOCK_CELLS"}
    /\ "protected" \in DOMAIN state.sheets[1]
    /\ state.sheets[1].protected = TRUE
    /\ "cellLocks" \in DOMAIN state.sheets[1]
    /\ "A1" \in DOMAIN state.sheets[1].cellLocks
    /\ state.sheets[1].cellLocks["A1"] = FALSE
    /\ isCellLocked(state, "sheet-1", "A1")

----------------------------------------------------------------------------
(* Images and charts on the initial document *)

EntityIds == {"e-1", "e-2"}

\* an ImageObject / a ChartObject with the given id
NewEntity(id) == [id |-> id, x |-> 0, y |-> 0, layer |-> 0]

\* Partial<ImageObject> / Partial<ChartObject> payloads
EntityUpdates == { [x |-> 10] }

AddImage ==
    /\ \A i \in 1..Len(state.sheets) : Len(state.sheets[i].images) < MaxEntities
    /\ \E sheetId \in TargetSheetIds, id \in EntityIds :
          Dispatch(Action("ADD_IMAGE", [sheetId |-> sheetId, image |-> NewEntity(id)]))
    /\ UNCHANGED <<clock, persistVars, columnVars, syncVars, propVars, firings, fired>>

UpdateImage ==
    /\ \E sheetId \in TargetSheetIds, id \in EntityIds, updates \in EntityUpdates :
          Dispatch(Action("UPDATE_IMAGE",
                          [sheetId |-> sheetId, imageId |-> id, updates |-> updates]))
    /\ UNCHANGED <<clock, persistVars, columnVars, syncVars, propVars, firings, fired>>

RemoveImage ==
    /\ \E sheetId \in TargetSheetIds, id \in EntityIds :
          Dispatch(Action("REMOVE_IMAGE", [sheetId |-> sheetId, imageId |-> id]))
    /\ UNCHANGED <<clock, persistVars, columnVars, syncVars, propVars, firings, fired>>

AddChart ==
    /\ \A i \in 1..Len(state.sheets) : Len(state.sheets[i].charts) < MaxEntities
    /\ \E sheetId \in TargetSheetIds, id \in EntityIds :
          Dispatch(Action("ADD_CHART", [sheetId |-> sheetId, chart |-> NewEntity(id)]))
    /\ UNCHANGED <<clock, persistVars, columnVars, syncVars, propVars, firings, fired>>

UpdateChart ==
    /\ \E sheetId \in TargetSheetIds, id \in EntityIds, updates \in EntityUpdates :
          Dispatch(Action("UPDATE_CHART",
                          [sheetId |-> sheetId, chartId |-> id, updates |-> updates]))
    /\ UNCHANGED <<clock, persistVars, columnVars, syncVars, propVars, firings, fired>>

RemoveChart ==
    /\ \E sheetId \in TargetSheetIds, id \in EntityIds :
          Dispatch(Action("REMOVE_CHART", [sheetId |-> sheetId, chartId |-> id]))
    /\ UNCHANGED <<clock, persistVars, columnVars, syncVars, propVars, firings, fired>>

NextEntities ==
    AddImage \/ UpdateImage \/ RemoveImage \/ AddChart \/ UpdateChart \/ RemoveChart

SpecEntities == Init /\ [][NextEntities]_vars

\* no entry of the list has the id
NoEntry(list, id) == \A k \in 1..Len(list) : list[k].id # id

\* C7: UPDATE_IMAGE (UPDATE_CHART) with an id that no image (chart) of the target sheet
\* has leaves that sheet's images (charts) as they were: no entry added, removed,
\* changed or moved.
C7_UpdateMissingIdKeepsList ==
    /\ lastAction.type = "UPDATE_IMAGE" =>
          \A i \in Targets(prevState, lastAction.payload.sheetId) :
              NoEntry(prevState.sheets[i].images, lastAction.payload.imageId)
              => state.sheets[i].images = prevState.sheets[i].images
    /\ lastAction.type = "UPDATE_CHART" =>
          \A i \in Targets(prevState, lastAction.payload.sheetId) :
              NoEntry(prevState.sheets[i].charts, lastAction.payload.chartId)
              => state.sheets[i].charts = prevState.sheets[i].charts

\* an UPDATE_IMAGE for e-2 on a sheet whose only image is e-1
C7_Witness ==
    /\ lastAction.type = "UPDATE_IMAGE"
    /\ lastAction.payload.sheetId = "sheet-1"
    /\ lastAction.payload.imageId = "e-2"
    /\ Len(prevState.sheets[1].images) = 1
    /\ prevState.sheets[1].images[1].id = "e-1"
    /\ Len(state.sheets[1].images) = 1
    /\ state.sheets[1].images[1] = prevState.sheets[1].images[1]

----------------------------------------------------------------------------
(* Export service: column letters to column index *)

\* the char codes of "A" .. "Z"
CharCodes == 65..90

\* the column strings of 1 .. MaxColLen letters
Columns == UNION { [1..n -> CharCodes] : n \in 1..MaxColLen }

\* the for loop of columnToIndex, from position i with the result so far
RECURSIVE columnToIndexLoop(_, _, _)
columnToIndexLoop(col, i, result) ==
    IF i > Len(col)
    THEN result
    ELSE columnToIndexLoop(col, i + 1, result * 26 + (col[i] - 64))

\* columnToIndex that takes "A" as digit 0 and subtracts nothing
columnToIndexZeroBased(col) ==
    LET Loop[i \in 1..(Len(col) + 1)] ==
            IF i = 1 THEN 0 ELSE Loop[i - 1] * 26 + (col[i - 1] - 65)
    IN  Loop[Len(col) + 1]

columnToIndex(col) == columnToIndexLoop(col, 1, 0) - 1

InitColumns ==
    /\ InitProvider
    /\ column \in Columns
    /\ colIndex = <<>>
    /\ NoSync

ConvertColumn ==
    /\ colIndex = <<>>
    /\ colIndex' = <<columnToIndex(column)>>
    /\ settled' = NoOutcome
    /\ UNCHANGED <<docVars, clock, persistVars, column, syncVars, schedVars, propVars, firings, fired>>

NextColumns == ConvertColumn

SpecColumns == InitColumns /\ [][NextColumns]_vars

RECURSIVE Power(_, _)
Power(base, exponent) == IF exponent = 0 THEN 1 ELSE base * Power(base, exponent - 1)

\* the sum over the positions i of col of (letter value 1..26) * 26^(n - i), for 1-based i
RECURSIVE LetterSum(_, _)
LetterSum(col, i) ==
    IF i > Len(col)
    THEN 0
    ELSE (col[i] - 64) * Power(26, Len(col) - i) + LetterSum(col, i + 1)

\* the indices that columnToIndex gives the column strings of 1 .. MaxColLen letters
ColumnIndices == { columnToIndex(col) : col \in Columns }

\* C9: columnToIndex gives a string of letters its bijective base-26 number minus 1:
\* A is 0, Z is 25, AA is 26, AZ is 51, and the strings of up to MaxColLen letters
\* get distinct indices that cover 0 .. N-1 for the N strings (the N indices of the N
\* strings are the N numbers 0 .. N-1; this is a fact about the function, stated once,
\* in the state where A has been converted).
C9_ColumnIndexIsBijectiveBase26 ==
    /\ colIndex # <<>> => colIndex[1] = LetterSum(column, 1) - 1
    /\ (colIndex # <<>> /\ column = <<65>>) => colIndex[1] = 0
    /\ (colIndex # <<>> /\ column = <<90>>) => colIndex[1] = 25
    /\ (colIndex # <<>> /\ column = <<65, 65>>) => colIndex[1] = 26
    /\ (colIndex # <<>> /\ column = <<65, 90>>) => colIndex[1] = 51
    /\ (colIndex # <<>> /\ column = <<65>>) => ColumnIndices = 0..(Cardinality(Columns) - 1)

\* AZ has been converted, to 51
C9_Witness ==
    /\ column = <<65, 90>>
    /\ colIndex = <<51>>

----------------------------------------------------------------------------
(* Persistence: saveToIPFS and loadFromIPFS over the content storage.       *)
(* A content identifier is the position of the content in store.            *)

\* the fields of SheetData
SheetFields ==
    {"sheetId", "name", "color", "visible", "protected", "protectionPassword",
     "cellLocks", "grid", "cells", "images", "shapes", "charts", "links", "symbols",
     "conditionalFormatting", "namedRanges", "sortState", "filterState"}

\* an object as JSON text holds it: a field set to undefined is left out
WithoutUndefined(obj) ==
    [k \in {f \in DOMAIN obj : ~(f \in UndefinableFields /\ obj[f] = Undefined)} |-> obj[k]]

\* the JSON tree of a document state
SerializeSheet(sheet) ==
    LET kept == WithoutUndefined(sheet)
    IN  [kept EXCEPT !.cells = [k \in DOMAIN kept.cells |-> WithoutUndefined(kept.cells[k])]]

SerializeDocument(s) ==
    [s EXCEPT !.sheets = [i \in 1..Len(s.sheets) |-> SerializeSheet(s.sheets[i])]]

\* the cid of the content: that of the same content stored before, or the next one
CidOf(contents, content) ==
    IF \E cid \in 1..Len(contents) : contents[cid] = content
    THEN CHOOSE cid \in 1..Len(contents) : contents[cid] = content
    ELSE Len(contents) + 1

\* a call of saveToIPFS awaiting its upload: the state its closure captured, and who
\* called it
PendingSave(snapshot, by) == [snapshot |-> snapshot, by |-> by]

\* seq without its element at position i
RemoveAt(seq, i) == [k \in 1..(Len(seq) - 1) |-> IF k < i THEN seq[k] ELSE seq[k + 1]]

\* the number of saves and loads that callers have started and that have not completed
InFlight == Cardinality({i \in 1..Len(saves) : saves[i].by = "caller"}) + Len(loads)

\* the Error that a failed upload rejects with
UploadError == [message |-> "upload failed"]

\* handleSave whose catch throws the error on
handleSaveRethrows(result, value) ==
    IF result = "resolved"
    THEN [op |-> "save", by |-> "handler", result |-> "resolved",
          value |-> [success |-> TRUE, cid |-> value]]
    ELSE [op |-> "save", by |-> "handler", result |-> "rejected", value |-> value]

\* handleSave of useDocumentSaveHandler, when the saveToIPFS it awaits has resolved
\* with the cid value or has rejected with the error value: how it ends for its caller
handleSave(result, value) ==
    [op |-> "save", by |-> "handler", result |-> "resolved",
     value |-> IF result = "resolved"
               THEN [success |-> TRUE, cid |-> value]
               ELSE [success |-> FALSE, error |-> value.message]]

\* how a saveToIPFS() that has resolved or rejected ends for the one who called it:
\* the timer callback catches a rejection, handleSave turns either into a result,
\* another caller gets what saveToIPFS gives
SaveSettles(by, result, value) ==
    IF by = "handler"
    THEN handleSave(result, value)
    ELSE Outcome("save", by, IF result = "rejected" /\ by = "timer" THEN "caught" ELSE result)

\* saveToIPFS() is called: its closure holds the state of the current render
SaveStart ==
    /\ mounted
    /\ InFlight < MaxInFlight
    /\ Len(store) + Len(saves) < MaxSaves
    /\ saves' = Append(saves, PendingSave(state, "caller"))
    /\ settled' = NoOutcome
    /\ UNCHANGED <<docVars, clock, store, savedAs, loads, lastCid, columnVars, syncVars, schedVars,
                   propVars, firings, fired>>

\* the versionHistory entry of a save
NewVersion(cid, snapshot, now) ==
    [cid |-> cid, timestamp |-> now, author |-> snapshot.metadata.owner]

\* state.versionHistory || []
VersionHistoryOrEmpty(s) ==
    IF "versionHistory" \in DOMAIN s THEN s.versionHistory ELSE <<>>

\* { ...state, versionHistory: [...(state.versionHistory || []), newVersion] }
WithNewVersion(snapshot, newVersion) ==
    SetKey(snapshot, "versionHistory", Append(VersionHistoryOrEmpty(snapshot), newVersion))

\* await uploadDocumentToIPFS(state) resolves with the cid; saveToIPFS then dispatches
\* UPDATE_METADATA and SET_DOCUMENT with the captured state plus the new version
UploadSucceeds ==
    /\ mounted
    /\ \E i \in 1..Len(saves) :
          LET snapshot == saves[i].snapshot
              content == SerializeDocument(snapshot)
              cid == CidOf(store, content)
              touched == documentReducer(state,
                             Action("UPDATE_METADATA", [updatedAt |-> clock]), clock)
              updatedState == WithNewVersion(snapshot, NewVersion(cid, snapshot, clock))
              next == documentReducer(touched, Action("SET_DOCUMENT", updatedState), clock)
          IN  /\ store' = IF cid > Len(store) THEN Append(store, content) ELSE store
              /\ savedAs' = IF cid > Len(store)
                            THEN Append(savedAs, {snapshot})
                            ELSE [savedAs EXCEPT ![cid] = @ \cup {snapshot}]
              /\ prevState' = touched
              /\ lastAction' = Action("SET_DOCUMENT", updatedState)
              /\ state' = next
              /\ Render(next)
              /\ lastCid' = cid
              /\ settled' = SaveSettles(saves[i].by, "resolved", cid)
              /\ saves' = RemoveAt(saves, i)
    /\ UNCHANGED <<clock, loads, columnVars, syncVars, propVars, firings, fired>>

\* a failed upload whose rejection no caller catches, the timer callback included
UploadFailsUncaught ==
    /\ mounted
    /\ \E i \in 1..Len(saves) :
          /\ settled' = Outcome("save", saves[i].by, "rejected")
          /\ saves' = RemoveAt(saves, i)
    /\ UNCHANGED <<docVars, clock, store, savedAs, loads, lastCid, columnVars, syncVars, schedVars,
                   propVars, firings, fired>>

\* a failed upload after which UPDATE_METADATA is dispatched all the same
UploadFailsAfterDispatch ==
    /\ mounted
    /\ \E i \in 1..Len(saves) :
          /\ DispatchAs(Action("UPDATE_METADATA", [updatedAt |-> clock]),
                        Outcome("save", saves[i].by,
                                IF saves[i].by = "timer" THEN "caught" ELSE "rejected"))
          /\ saves' = RemoveAt(saves, i)
    /\ UNCHANGED <<clock, store, savedAs, loads, lastCid, columnVars, syncVars, propVars,
                   firings, fired>>

\* a failed upload of an auto-save after which the callback arms the timer again
UploadFailsRearm ==
    /\ mounted
    /\ \E i \in 1..Len(saves) :
          LET id == NextTimerId(timers)
          IN  /\ settled' = Outcome("save", saves[i].by,
                                    IF saves[i].by = "timer" THEN "caught" ELSE "rejected")
              /\ timers' = SetTimeout(timers, id, saves[i].snapshot)
              /\ autoSaveTimerRef' = <<id>>
              /\ saves' = RemoveAt(saves, i)
    /\ UNCHANGED <<docVars, clock, store, savedAs, loads, lastCid, columnVars, syncVars, sinceChange,
                   propVars, firings, fired>>

\* await uploadDocumentToIPFS(state) rejects: saveToIPFS logs and rethrows; the caller
\* gets the rejection, the timer callback catches and logs it
UploadFails ==
    /\ mounted
    /\ \E i \in 1..Len(saves) :
          /\ settled' = SaveSettles(saves[i].by, "rejected", UploadError)
          /\ saves' = RemoveAt(saves, i)
    /\ UNCHANGED <<docVars, clock, store, savedAs, loads, lastCid, columnVars, syncVars, schedVars,
                   propVars, firings, fired>>

\* loadFromIPFS(cid) is called, with a cid that a save returned or with another one
LoadStart ==
    /\ mounted
    /\ InFlight < MaxInFlight
    /\ \E cid \in 1..(Len(store) + 1) : loads' = Append(loads, cid)
    /\ settled' = NoOutcome
    /\ UNCHANGED <<docVars, clock, store, savedAs, saves, lastCid, columnVars, syncVars, schedVars,
                   propVars, firings, fired>>

\* await loadDocumentFromIPFS(cid) resolves; loadFromIPFS dispatches RESTORE_FROM_IPFS
DownloadSucceeds ==
    /\ \E j \in 1..Len(loads) :
          /\ loads[j] \in 1..Len(store)
          /\ DispatchAs(Action("RESTORE_FROM_IPFS", store[loads[j]]),
                        Outcome("load", "caller", "resolved"))
          /\ lastCid' = loads[j]
          /\ loads' = RemoveAt(loads, j)
    /\ UNCHANGED <<clock, store, savedAs, saves, columnVars, syncVars, propVars, firings, fired>>

\* await loadDocumentFromIPFS(cid) rejects: loadFromIPFS logs and rethrows
DownloadFails ==
    /\ mounted
    /\ \E j \in 1..Len(loads) :
          /\ settled' = Outcome("load", "caller", "rejected")
          /\ loads' = RemoveAt(loads, j)
    /\ UNCHANGED <<docVars, clock, store, savedAs, saves, lastCid, columnVars, syncVars, schedVars,
                   propVars, firings, fired>>

\* the user types a value into A1
EditValue ==
    /\ Dispatch(Action("UPDATE_CELL",
                        [sheetId |-> "sheet-1", cellKey |-> "A1", data |-> [value |-> "x"]]))
    /\ UNCHANGED <<clock, persistVars, columnVars, syncVars, propVars, firings, fired>>

\* the user removes the sparkline of A1, a cell they have typed into:
\* setSparkline(sheetId, cellKey, null)
ClearSparkline ==
    /\ "A1" \in DOMAIN state.sheets[1].cells
    /\ Dispatch(Action("SET_SPARKLINE",
                        [sheetId |-> "sheet-1", cellKey |-> "A1", sparkline |-> Null]))
    /\ UNCHANGED <<clock, persistVars, columnVars, syncVars, propVars, firings, fired>>

NextPersist ==
    \/ Tick
    \/ EditValue
    \/ ClearSparkline
    \/ SaveStart
    \/ UploadSucceeds
    \/ UploadFails
    \/ LoadStart
    \/ DownloadSucceeds
    \/ DownloadFails

SpecPersist == Init /\ [][NextPersist]_vars

\* the fields of DocumentState
DocumentFields ==
    {"documentId", "metadata", "sheets", "activeSheetId", "settings", "versionHistory"}

\* two cells mappings have the same cells, each with the same value in every field
SameCells(a, b) ==
    /\ DOMAIN a = DOMAIN b
    /\ \A cellKey \in DOMAIN a : \A field \in CellFields :
          SameField(a[cellKey], b[cellKey], field)

\* two document states have the same value in every field of the schema
SameDocument(a, b) ==
    /\ \A field \in DocumentFields \ {"sheets"} : SameField(a, b, field)
    /\ Len(a.sheets) = Len(b.sheets)
    /\ \A i \in 1..Len(a.sheets) :
          /\ \A field \in SheetFields \ {"cells"} :
                SameField(a.sheets[i], b.sheets[i], field)
          /\ SameCells(a.sheets[i].cells, b.sheets[i].cells)

QuietSaveCompletes ==
    /\ settled'.op = "save"
    /\ \E i \in 1..Len(saves) : saves[i].snapshot = state /\ saves' = RemoveAt(saves, i)

C12_FailureLeavesState ==
    [][(settled'.by = "caller" /\ settled'.result # "resolved") =>
          /\ settled'.result = "rejected"
          /\ state' = state
          /\ lastAction' = lastAction
          /\ prevState' = prevState]_vars

\* a save of the edited document has just been rejected: the edit is there and no
\* version is recorded
C12_Witness ==
    /\ settled = Outcome("save", "caller", "rejected")
    /\ lastAction.type = "UPDATE_CELL"
    /\ "A1" \in DOMAIN state.sheets[1].cells
    /\ state.versionHistory = <<>>

\* C13: when a load's download succeeds, the state is the downloaded document in
\* every field, and has no field that the downloaded document has not.
C13_LoadReplacesState ==
    (settled.op = "load" /\ settled.result = "resolved") =>
        /\ lastCid \in 1..Len(store)
        /\ DOMAIN state = DOMAIN store[lastCid]
        /\ \A field \in DocumentFields : SameField(state, store[lastCid], field)

\* a load has just replaced a state that had a cell and a version by a document that
\* has neither
C13_Witness ==
    /\ settled = Outcome("load", "caller", "resolved")
    /\ "A1" \in DOMAIN prevState.sheets[1].cells
    /\ Len(prevState.versionHistory) = 1
    /\ state.sheets[1].cells = EmptyObj
    /\ state.versionHistory = <<>>

----------------------------------------------------------------------------
(* The auto-save scheduler: timers run down and fire, the provider's prop   *)
(* changes, the provider unmounts.  Timers count in ms of their own.        *)

\* the amounts of time that pass in one step
ElapseSteps == {10000, 20000}

\* Math.min
Min(a, b) == IF a < b THEN a ELSE b

\* time passes while a timer is pending: no timer is passed over
Elapse ==
    /\ DOMAIN timers # {}
    /\ \E d \in ElapseSteps :
          /\ \A id \in DOMAIN timers : timers[id].remaining >= d
          /\ timers' = [id \in DOMAIN timers |->
                            [timers[id] EXCEPT !.remaining = @ - d]]
          /\ sinceChange' = Min(sinceChange + d, AutoSaveDelay(state))
    /\ settled' = NoOutcome
    /\ UNCHANGED <<docVars, clock, persistVars, columnVars, syncVars, autoSaveTimerRef, propVars,
                   firings, fired>>

\* what the timer callback finds when it runs
Firing(id) ==
    [enabled |-> autoSaveEnabled,
     autoSave |-> DocumentAutoSave(state),
     mounted |-> mounted,
     waited |-> sinceChange,
     delay |-> AutoSaveDelay(timers[id].closure)]

\* a timer is due: its callback calls the saveToIPFS of the render that armed it;
\* limit caps the number of firings
TimerFiresUpTo(limit) ==
    /\ firings < limit
    /\ \E id \in DOMAIN timers :
          /\ timers[id].remaining = 0
          /\ timers' = [k \in DOMAIN timers \ {id} |-> timers[k]]
          /\ saves' = Append(saves, PendingSave(timers[id].closure, "timer"))
          /\ fired' = <<Firing(id)>>
    /\ firings' = firings + 1
    /\ settled' = NoOutcome
    /\ UNCHANGED <<docVars, clock, store, savedAs, loads, lastCid, columnVars, syncVars,
                   autoSaveTimerRef, sinceChange, propVars>>

TimerFires == TimerFiresUpTo(MaxFirings)

\* the parent renders the provider with the other value of autoSaveEnabled
SetAutoSaveEnabled ==
    /\ mounted
    /\ \E enabled \in BOOLEAN \ {autoSaveEnabled} :
          /\ autoSaveEnabled' = enabled
          /\ AutoSaveEffect(state, autoSaveEnabled, state, enabled)
    /\ sinceChange' = 0
    /\ settled' = NoOutcome
    /\ UNCHANGED <<docVars, clock, persistVars, columnVars, syncVars, mounted, firings, fired>>

\* the provider unmounts: the cleanup of the last run of the effect runs
Unmount ==
    /\ mounted
    /\ mounted' = FALSE
    /\ timers' = AutoSaveCleanup(timers, autoSaveTimerRef, state, autoSaveEnabled)
    /\ settled' = NoOutcome
    /\ UNCHANGED <<docVars, clock, persistVars, columnVars, syncVars, autoSaveTimerRef, sinceChange,
                   autoSaveEnabled, firings, fired>>

\* edits, callers' saves and auto-saves on one document, no load
NextSaves ==
    \/ Elapse
    \/ TimerFires
    \/ EditValue
    \/ SaveStart
    \/ UploadSucceeds
    \/ UploadFails

SpecSaves == Init /\ [][NextSaves]_vars

\* documents that other sessions, mounted earlier, have saved: one with auto-save
\* off, one without settings
SharedDocuments ==
    LET initial == createInitialState(-1)
    IN  << [initial EXCEPT !.settings.autoSave = FALSE],
           [field \in DOMAIN initial \ {"settings"} |-> initial[field]] >>

\* the provider is mounted, with either value of autoSaveEnabled, over a content
\* storage that holds SharedDocuments
InitAutoSave ==
    /\ clock = 0
    /\ state = createInitialState(0)
    /\ lastAction = [type |-> "@@INIT"]
    /\ prevState = state
    /\ store = [cid \in 1..Len(SharedDocuments) |-> SerializeDocument(SharedDocuments[cid])]
    /\ savedAs = [cid \in 1..Len(SharedDocuments) |-> {SharedDocuments[cid]}]
    /\ saves = <<>>
    /\ loads = <<>>
    /\ lastCid = 0
    /\ autoSaveEnabled \in BOOLEAN
    /\ mounted = TRUE
    /\ timers = IF AutoSaveActive(state, autoSaveEnabled)
                THEN SetTimeout(<<>>, 1, state)
                ELSE <<>>
    /\ autoSaveTimerRef = IF AutoSaveActive(state, autoSaveEnabled) THEN <<1>> ELSE <<>>
    /\ sinceChange = 0
    /\ firings = 0
    /\ fired = <<>>
    /\ settled = NoOutcome
    /\ column = <<>>
    /\ colIndex = <<>>
    /\ NoSync

\* edits, auto-saves and loads on one provider, until it unmounts
NextAutoSave ==
    \/ Elapse
    \/ TimerFires
    \/ EditValue
    \/ UploadSucceeds
    \/ UploadFails
    \/ LoadStart
    \/ DownloadSucceeds
    \/ DownloadFails
    \/ SetAutoSaveEnabled
    \/ Unmount

SpecAutoSave == InitAutoSave /\ [][NextAutoSave]_vars

\* a is a prefix of b
IsPrefix(a, b) == Len(a) <= Len(b) /\ SubSeq(b, 1, Len(a)) = a

\* C14: over edits and saves on one document, with no load, every step leaves the
\* version history of before as a prefix of the new one, and every save that
\* succeeds makes it one entry longer, also when saves overlap.
C14_VersionHistoryAppendOnly ==
    [][/\ IsPrefix(state.versionHistory, state'.versionHistory)
       /\ (settled'.op = "save" /\ settled'.result = "resolved") =>
             Len(state'.versionHistory) = Len(state.versionHistory) + 1]_vars

\* C15: at no time are two uploads of the document in flight together.
C15_SavesAreSerialized == Len(saves) <= 1

\* a save completes in this step that was called before the load completed whose
\* dispatch is the last one: it captured another state than the loaded one
StaleSaveCompletes ==
    /\ settled'.op = "save"
    /\ settled'.result = "resolved"
    /\ lastAction.type = "RESTORE_FROM_IPFS"
    /\ \E i \in 1..Len(saves) : saves[i].snapshot # state /\ saves' = RemoveAt(saves, i)

\* C16: when a save completes that was in flight while a load completed, the state
\* stays the loaded document, without the save's version entry.
C16_StaleSaveIsDiscarded ==
    [][StaleSaveCompletes => state' = state]_vars

\* the provider is mounted, its flag is true and so is the document's setting
Scheduling == mounted /\ autoSaveEnabled /\ DocumentAutoSave(state)

\* C17: at most one timer is pending.  While auto-save is on, the pending timer is due
\* one delay after the last change: a change before that leaves one timer with the
\* full delay, no callback has run sooner than one delay after the last change, and
\* once it has run no timer is pending until the next change.
C17_ChangesCoalesceIntoOneSave ==
    /\ Cardinality(DOMAIN timers) <= 1
    /\ fired # <<>> => fired[1].waited = fired[1].delay
    /\ Scheduling =>
          /\ \A id \in DOMAIN timers :
                timers[id].remaining + sinceChange = AutoSaveDelay(state)
          /\ sinceChange < AutoSaveDelay(state) => Cardinality(DOMAIN timers) = 1
          /\ DOMAIN timers = {} => fired # <<>>

\* the timer that the last edit armed has fired, one delay after that edit, and its
\* save of the edited document is in flight; no timer is pending
C17_Witness ==
    /\ lastAction.type = "UPDATE_CELL"
    /\ sinceChange = AutoSaveDelay(state)
    /\ fired # <<>>
    /\ fired[1].waited = AutoSaveDelay(state)
    /\ DOMAIN timers = {}
    /\ Len(saves) = 1
    /\ saves[1] = PendingSave(state, "timer")

\* C18: while the provider's flag or the document's settings.autoSave is false, or
\* settings is absent, or the provider is unmounted, no timer is pending; every timer
\* callback has run with both flags true and the provider mounted.
C18_AutoSaveOnlyWhileEnabled ==
    /\ ~Scheduling => DOMAIN timers = {}
    /\ fired # <<>> => fired[1].enabled /\ fired[1].autoSave /\ fired[1].mounted

\* a load has just replaced a document with auto-save on, whose timer was pending,
\* by one without settings: no timer is pending
C18_Witness ==
    /\ settled = Outcome("load", "caller", "resolved")
    /\ autoSaveEnabled
    /\ DocumentAutoSave(prevState)
    /\ "settings" \notin DOMAIN state
    /\ DOMAIN timers = {}
    /\ autoSaveTimerRef # <<>>

\* C19: when the upload of a save that the timer callback started fails, the callback
\* catches the rejection, and the step changes neither the state nor the timers.
C19_AutoSaveFailureIsCaught ==
    [][(settled'.by = "timer" /\ settled'.result # "resolved") =>
          /\ settled'.result = "caught"
          /\ state' = state
          /\ lastAction' = lastAction
          /\ prevState' = prevState
          /\ timers' = timers]_vars

\* the save of the timer callback has just failed and was caught; the state is the
\* one that the callback was to save
C19_Witness ==
    /\ settled = Outcome("save", "timer", "caught")
    /\ fired # <<>>
    /\ saves = <<>>
    /\ "A1" \in DOMAIN state.sheets[1].cells
    /\ state.versionHistory = <<>>

----------------------------------------------------------------------------
(* Actions that the reducer has no case for *)

\* ADD_SHAPE, UPDATE_SHAPE and REMOVE_SHAPE are in DocumentAction and have no case;
\* the last one is in neither
UnhandledTypes == {"ADD_SHAPE", "UPDATE_SHAPE", "REMOVE_SHAPE", "NO_SUCH_ACTION"}

\* a component dispatches an action of a type without a case
DispatchUnhandled ==
    /\ \E type \in UnhandledTypes, sheetId \in TargetSheetIds :
          Dispatch(Action(type, [sheetId |-> sheetId]))
    /\ UNCHANGED <<clock, persistVars, columnVars, syncVars, propVars, firings, fired>>

NextUnhandled == Tick \/ UpdateCell \/ DispatchUnhandled

SpecUnhandled == Init /\ [][NextUnhandled]_vars

\* C20: after the dispatch of an action whose type has no case, the state is the
\* state of before in every field, metadata.updatedAt included.
C20_UnhandledActionIsIdentity ==
    lastAction.type \in UnhandledTypes =>
        /\ state = prevState
        /\ state.metadata.updatedAt = prevState.metadata.updatedAt

\* an action without a case has been dispatched on an edited document, later than
\* the last edit
C20_Witness ==
    /\ lastAction.type = "ADD_SHAPE"
    /\ state.sheets[1].cells # EmptyObj
    /\ clock > state.metadata.updatedAt

----------------------------------------------------------------------------
(* The whole action surface: one dispatch, at any time, on a document that   *)
(* the reducer has made from the initial one                                  *)

\* the state after the actions of a sequence from position i on, reduced at time now
RECURSIVE ReduceAll(_, _, _, _)
ReduceAll(s, actions, now, i) ==
    IF i > Len(actions)
    THEN s
    ELSE CHOOSE result \in {ReduceAll(next, actions, now, i + 1) :
                                next \in {documentReducer(s, actions[i], now)}} : TRUE

\* a ConditionalFormat with the given id
NewFormat(id) == [id |-> id, range |-> "A1:A9", type |-> "cellValue"]

\* a ShapeObject with the given id
NewShape(id) == [id |-> id, type |-> "rect", x |-> 0, y |-> 0]

\* the initial document with a cell, an image, a chart, a conditional format and a
\* cell lock
EditedDocument ==
    ReduceAll(createInitialState(0),
              << Action("UPDATE_CELL",
                        [sheetId |-> "sheet-1", cellKey |-> "A1", data |-> [value |-> "x"]]),
                 Action("ADD_IMAGE", [sheetId |-> "sheet-1", image |-> NewEntity("e-1")]),
                 Action("ADD_CHART", [sheetId |-> "sheet-1", chart |-> NewEntity("e-1")]),
                 Action("ADD_CONDITIONAL_FORMAT",
                        [sheetId |-> "sheet-1", format |-> NewFormat("e-1")]),
                 Action("LOCK_CELLS",
                        [sheetId |-> "sheet-1", cellKeys |-> <<"B1">>, locked |-> TRUE]) >>,
              0, 1)

\* the initial document with a value in A1, its sheet protected under a password
ProtectedDocument ==
    ReduceAll(createInitialState(0),
              << Action("UPDATE_CELL",
                        [sheetId |-> "sheet-1", cellKey |-> "A1", data |-> [value |-> "x"]]),
                 Action("PROTECT_SHEET",
                        [sheetId |-> "sheet-1", protected |-> TRUE, password |-> "hash"]) >>,
              0, 1)

\* the initial document with a second sheet
TwoSheetDocument ==
    ReduceAll(createInitialState(0),
              << Action("ADD_SHEET", BlankSheet("sheet-2", "Sheet2")) >>, 0, 1)

\* the initial document with its sheet removed
EmptyDocument ==
    ReduceAll(createInitialState(0), << Action("REMOVE_SHEET", "sheet-1") >>, 0, 1)

ReducerDocuments ==
    {createInitialState(0), EditedDocument, ProtectedDocument, TwoSheetDocument,
     EmptyDocument}

\* the provider holds one of ReducerDocuments
InitReducer ==
    /\ clock = 0
    /\ state \in ReducerDocuments
    /\ lastAction = [type |-> "@@INIT"]
    /\ prevState = state
    /\ store = <<>>
    /\ savedAs = <<>>
    /\ saves = <<>>
    /\ loads = <<>>
    /\ lastCid = 0
    /\ autoSaveEnabled = TRUE
    /\ mounted = TRUE
    /\ timers = SetTimeout(<<>>, 1, state)
    /\ autoSaveTimerRef = <<1>>
    /\ sinceChange = 0
    /\ firings = 0
    /\ fired = <<>>
    /\ settled = NoOutcome
    /\ column = <<>>
    /\ colIndex = <<>>
    /\ NoSync

\* Partial<DocumentMetadata> payloads: a title, a timestamp of the past, a sheet count
MetadataPayloads == { [title |-> "Budget"], [updatedAt |-> -1], [sheetCount |-> 0] }

\* DocumentState payloads of SET_DOCUMENT and RESTORE_FROM_IPFS
ReplacementDocuments == { SharedDocuments[cid] : cid \in 1..Len(SharedDocuments) }

ReplaceDocument ==
    /\ \E type \in {"SET_DOCUMENT", "RESTORE_FROM_IPFS"}, doc \in ReplacementDocuments :
          Dispatch(Action(type, doc))
    /\ UNCHANGED <<clock, persistVars, columnVars, syncVars, propVars, firings, fired>>

UpdateMetadata ==
    /\ \E metadata \in MetadataPayloads : Dispatch(Action("UPDATE_METADATA", metadata))
    /\ UNCHANGED <<clock, persistVars, columnVars, syncVars, propVars, firings, fired>>

\* ADD_SHEET of a sheet whose id no sheet has or the first sheet has
AddAnySheet ==
    /\ \E id \in TargetSheetIds : Dispatch(Action("ADD_SHEET", BlankSheet(id, "Sheet")))
    /\ UNCHANGED <<clock, persistVars, columnVars, syncVars, propVars, firings, fired>>

RenameSheet ==
    /\ \E sheetId \in TargetSheetIds :
          Dispatch(Action("RENAME_SHEET", [sheetId |-> sheetId, name |-> "Renamed"]))
    /\ UNCHANGED <<clock, persistVars, columnVars, syncVars, propVars, firings, fired>>

SetActiveSheet ==
    /\ \E sheetId \in TargetSheetIds : Dispatch(Action("SET_ACTIVE_SHEET", sheetId))
    /\ UNCHANGED <<clock, persistVars, columnVars, syncVars, propVars, firings, fired>>

UpdateGridConfig ==
    /\ \E sheetId \in TargetSheetIds :
          Dispatch(Action("UPDATE_GRID_CONFIG",
                          [sheetId |-> sheetId, config |-> [frozenRows |-> 1]]))
    /\ UNCHANGED <<clock, persistVars, columnVars, syncVars, propVars, firings, fired>>

SetRowSize ==
    /\ \E sheetId \in TargetSheetIds :
          Dispatch(Action("SET_ROW_SIZE", [sheetId |-> sheetId, rowIndex |-> 0, size |-> 40]))
    /\ UNCHANGED <<clock, persistVars, columnVars, syncVars, propVars, firings, fired>>

SetColumnSize ==
    /\ \E sheetId \in TargetSheetIds :
          Dispatch(Action("SET_COLUMN_SIZE",
                          [sheetId |-> sheetId, colIndex |-> 0, size |-> 120]))
    /\ UNCHANGED <<clock, persistVars, columnVars, syncVars, propVars, firings, fired>>

AddConditionalFormat ==
    /\ \E sheetId \in TargetSheetIds, id \in EntityIds :
          Dispatch(Action("ADD_CONDITIONAL_FORMAT",
                          [sheetId |-> sheetId, format |-> NewFormat(id)]))
    /\ UNCHANGED <<clock, persistVars, columnVars, syncVars, propVars, firings, fired>>

RemoveConditionalFormat ==
    /\ \E sheetId \in TargetSheetIds, id \in EntityIds :
          Dispatch(Action("REMOVE_CONDITIONAL_FORMAT",
                          [sheetId |-> sheetId, formatId |-> id]))
    /\ UNCHANGED <<clock, persistVars, columnVars, syncVars, propVars, firings, fired>>

SetDataValidation ==
    /\ \E sheetId \in TargetSheetIds, cellKey \in CellKeys :
          Dispatch(Action("SET_DATA_VALIDATION",
                          [sheetId |-> sheetId, cellKey |-> cellKey,
                           validation |-> [type |-> "list"]]))
    /\ UNCHANGED <<clock, persistVars, columnVars, syncVars, propVars, firings, fired>>

AddShape ==
    /\ \E sheetId \in TargetSheetIds, id \in EntityIds :
          Dispatch(Action("ADD_SHAPE", [sheetId |-> sheetId, shape |-> NewShape(id)]))
    /\ UNCHANGED <<clock, persistVars, columnVars, syncVars, propVars, firings, fired>>

UpdateShape ==
    /\ \E sheetId \in TargetSheetIds, id \in EntityIds, updates \in EntityUpdates :
          Dispatch(Action("UPDATE_SHAPE",
                          [sheetId |-> sheetId, shapeId |-> id, updates |-> updates]))
    /\ UNCHANGED <<clock, persistVars, columnVars, syncVars, propVars, firings, fired>>

RemoveShape ==
    /\ \E sheetId \in TargetSheetIds, id \in EntityIds :
          Dispatch(Action("REMOVE_SHAPE", [sheetId |-> sheetId, shapeId |-> id]))
    /\ UNCHANGED <<clock, persistVars, columnVars, syncVars, propVars, firings, fired>>

\* nothing has been dispatched yet
FirstDispatch == lastAction.type = "@@INIT"

\* time passes, then a component dispatches one action of the action surface
NextReducer ==
    \/ FirstDispatch /\ Tick
    \/ FirstDispatch /\ ReplaceDocument
    \/ FirstDispatch /\ UpdateMetadata
    \/ FirstDispatch /\ AddAnySheet
    \/ FirstDispatch /\ RemoveSheet
    \/ FirstDispatch /\ RenameSheet
    \/ FirstDispatch /\ SetActiveSheet
    \/ FirstDispatch /\ UpdateCell
    \/ FirstDispatch /\ UpdateCells
    \/ FirstDispatch /\ SetCellStyle
    \/ FirstDispatch /\ AddImage
    \/ FirstDispatch /\ UpdateImage
    \/ FirstDispatch /\ RemoveImage
    \/ FirstDispatch /\ AddShape
    \/ FirstDispatch /\ UpdateShape
    \/ FirstDispatch /\ RemoveShape
    \/ FirstDispatch /\ AddChart
    \/ FirstDispatch /\ UpdateChart
    \/ FirstDispatch /\ RemoveChart
    \/ FirstDispatch /\ UpdateGridConfig
    \/ FirstDispatch /\ SetRowSize
    \/ FirstDispatch /\ SetColumnSize
    \/ FirstDispatch /\ AddConditionalFormat
    \/ FirstDispatch /\ RemoveConditionalFormat
    \/ FirstDispatch /\ SetDataValidation
    \/ FirstDispatch /\ SetSparkline
    \/ FirstDispatch /\ ProtectSheet
    \/ FirstDispatch /\ LockCells

SpecReducer == InitReducer /\ [][NextReducer]_vars

\* the action types whose case returns the payload as the new state
ReplacingTypes == {"SET_DOCUMENT", "RESTORE_FROM_IPFS"}

\* C21: after an action that has changed the document, other than SET_ACTIVE_SHEET and
\* the two replacements, and after every action of a type with an editing case,
\* metadata.updatedAt is the time of the reduction (for UPDATE_METADATA also when the
\* payload has an updatedAt); SET_ACTIVE_SHEET leaves metadata as it was; SET_DOCUMENT
\* and RESTORE_FROM_IPFS leave the payload as the state, with the payload's updatedAt.
C21_EditsStampUpdatedAt ==
    /\ (/\ lastAction.type \notin ReplacingTypes \cup {"SET_ACTIVE_SHEET", "@@INIT"}
        /\ state # prevState)
          => state.metadata.updatedAt = clock
    /\ lastAction.type \in HandledTypes \ (ReplacingTypes \cup {"SET_ACTIVE_SHEET"})
          => state.metadata.updatedAt = clock
    /\ lastAction.type = "SET_ACTIVE_SHEET" => state.metadata = prevState.metadata
    /\ lastAction.type \in ReplacingTypes =>
          /\ state = lastAction.payload
          /\ state.metadata.updatedAt = lastAction.payload.metadata.updatedAt

\* UPDATE_METADATA with an updatedAt of the past in its payload, reduced at time 1 on
\* a document last updated at time 0
C21_Witness ==
    /\ lastAction.type = "UPDATE_METADATA"
    /\ lastAction.payload = [updatedAt |-> -1]
    /\ prevState.metadata.updatedAt = 0
    /\ clock = 1
    /\ state.metadata.updatedAt = 1

\* C22: whenever the document has sheets, activeSheetId is the id of one of them.
C22_ActiveSheetIsASheet ==
    Len(state.sheets) > 0 =>
        \E i \in 1..Len(state.sheets) : state.sheets[i].sheetId = state.activeSheetId

\* C23: after an action of any type, metadata.sheetCount is the number of sheets.
C23_SheetCountAfterAnyAction ==
    lastAction.type # "@@INIT" => state.metadata.sheetCount = Len(state.sheets)

\* list with the updates merged into its entries that have the id
MergedInto(list, id, updates) ==
    [k \in 1..Len(list) |-> IF list[k].id = id THEN Merge(list[k], updates) ELSE list[k]]

\* C24: on every sheet with the payload's sheetId, ADD_SHAPE leaves the shapes of before
\* plus the payload's shape at the end, UPDATE_SHAPE the shapes of before with the
\* updates merged into the one with the id, REMOVE_SHAPE the shapes of before without
\* the one with the id.
C24_ShapeActionsTakeEffect ==
    /\ lastAction.type = "ADD_SHAPE" =>
          \A i \in Targets(prevState, lastAction.payload.sheetId) :
              state.sheets[i].shapes =
                  Append(prevState.sheets[i].shapes, lastAction.payload.shape)
    /\ lastAction.type = "UPDATE_SHAPE" =>
          \A i \in Targets(prevState, lastAction.payload.sheetId) :
              state.sheets[i].shapes =
                  MergedInto(prevState.sheets[i].shapes, lastAction.payload.shapeId,
                             lastAction.payload.updates)
    /\ lastAction.type = "REMOVE_SHAPE" =>
          \A i \in Targets(prevState, lastAction.payload.sheetId) :
              state.sheets[i].shapes =
                  SelectSeq(prevState.sheets[i].shapes,
                            LAMBDA shape : shape.id # lastAction.payload.shapeId)

\* C25: after LOCK_CELLS, the cellLocks of every sheet with the payload's sheetId map
\* each cell key of the payload to the payload's locked, have the entries of before
\* for every other key, and no further key; this also when the sheet had no cellLocks.
C25_LockCellsSetsKeysOnly ==
    lastAction.type = "LOCK_CELLS" =>
        \A i \in Targets(prevState, lastAction.payload.sheetId) :
            LET cellKeys == lastAction.payload.cellKeys
                keys == {cellKeys[k] : k \in 1..Len(cellKeys)}
                had == "cellLocks" \in DOMAIN prevState.sheets[i]
                others == IF had THEN DOMAIN prevState.sheets[i].cellLocks \ keys ELSE {}
            IN  /\ "cellLocks" \in DOMAIN state.sheets[i]
                /\ DOMAIN state.sheets[i].cellLocks = keys \cup others
                /\ \A key \in keys : state.sheets[i].cellLocks[key] = lastAction.payload.locked
                /\ \A key \in others :
                      state.sheets[i].cellLocks[key] = prevState.sheets[i].cellLocks[key]

\* A1 and B1 were locked; LOCK_CELLS unlocks A1 alone and B1 stays locked
C25_Witness ==
    /\ lastAction.type = "LOCK_CELLS"
    /\ lastAction.payload = [sheetId |-> "sheet-1", cellKeys |-> <<"A1">>, locked |-> FALSE]
    /\ "cellLocks" \in DOMAIN prevState.sheets[1]
    /\ prevState.sheets[1].cellLocks = [A1 |-> TRUE, B1 |-> TRUE]
    /\ state.sheets[1].cellLocks = [A1 |-> FALSE, B1 |-> TRUE]

----------------------------------------------------------------------------
(* useDocumentState: the provider's context when a provider is mounted above  *)
(* the component, the fallback context when none is.  Without a provider,     *)
(* state is the fallbackState of the component's last render.                 *)

\* a fallback mutator that reduces the fallback state like the provider's does
FallbackCallReduces(s, call, now) == documentReducer(s, call, now)

\* dispatch: () => {}, updateCell: () => {}, ...: the state after the call, where call
\* is the action that the provider's function would dispatch
FallbackCall(s, call, now) == s

\* isCellLocked: () => false
FallbackIsCellLocked(s, sheetId, cellKey) == FALSE

\* isSheetProtected: () => false
FallbackIsSheetProtected(s, sheetId) == FALSE

\* a boolean as the record of a call holds it
BoolText(b) == IF b THEN "true" ELSE "false"

\* the calls of dispatch and of the eight convenience mutators, by the action that
\* the provider's function dispatches
FallbackCalls ==
    UNION { { Action("ADD_SHEET", BlankSheet(sheetId, "Sheet")),
              Action("UPDATE_CELL",
                     [sheetId |-> sheetId, cellKey |-> "A1", data |-> [value |-> "x"]]),
              Action("SET_CELL_STYLE",
                     [sheetId |-> sheetId, cellKey |-> "A1", style |-> [bold |-> TRUE]]),
              Action("ADD_IMAGE", [sheetId |-> sheetId, image |-> NewEntity("e-1")]),
              Action("ADD_CHART", [sheetId |-> sheetId, chart |-> NewEntity("e-1")]),
              Action("UPDATE_METADATA", [title |-> "Budget"]),
              Action("SET_SPARKLINE",
                     [sheetId |-> sheetId, cellKey |-> "A1", sparkline |-> "line:A1:A10"]),
              Action("PROTECT_SHEET",
                     [sheetId |-> sheetId, protected |-> TRUE, password |-> Undefined]),
              Action("LOCK_CELLS",
                     [sheetId |-> sheetId, cellKeys |-> <<"A1">>, locked |-> TRUE]) } :
            sheetId \in TargetSheetIds }

\* a component is rendered, above it a provider or none
InitHook ==
    /\ clock = 0
    /\ state = createInitialState(0)
    /\ lastAction = [type |-> "@@INIT"]
    /\ prevState = state
    /\ store = <<>>
    /\ savedAs = <<>>
    /\ saves = <<>>
    /\ loads = <<>>
    /\ lastCid = 0
    /\ autoSaveEnabled = TRUE
    /\ mounted \in BOOLEAN
    /\ timers = IF mounted THEN SetTimeout(<<>>, 1, state) ELSE <<>>
    /\ autoSaveTimerRef = IF mounted THEN <<1>> ELSE <<>>
    /\ sinceChange = 0
    /\ firings = 0
    /\ fired = <<>>
    /\ settled = NoOutcome
    /\ column = <<>>
    /\ colIndex = <<>>
    /\ NoSync

\* the component renders again without a provider: const fallbackState = createInitialState()
FallbackRender ==
    /\ ~mounted
    /\ state' = createInitialState(clock)
    /\ settled' = NoOutcome
    /\ UNCHANGED <<lastAction, prevState, clock, persistVars, columnVars, syncVars, schedVars,
                   propVars, firings, fired>>

\* the component calls dispatch or a convenience mutator of the fallback context
FallbackMutate ==
    /\ ~mounted
    /\ \E call \in FallbackCalls :
          /\ state' = FallbackCall(state, call, clock)
          /\ settled' = Outcome(call.type, "component", "returned")
    /\ UNCHANGED <<lastAction, prevState, clock, persistVars, columnVars, syncVars, schedVars,
                   propVars, firings, fired>>

\* the component calls isCellLocked or isSheetProtected of the fallback context
FallbackQuery ==
    /\ ~mounted
    /\ \E sheetId \in TargetSheetIds, cellKey \in CellKeys :
          \/ settled' = Outcome("isCellLocked", "component",
                                BoolText(FallbackIsCellLocked(state, sheetId, cellKey)))
          \/ settled' = Outcome("isSheetProtected", "component",
                                BoolText(FallbackIsSheetProtected(state, sheetId)))
    /\ UNCHANGED <<docVars, clock, persistVars, columnVars, syncVars, schedVars, propVars,
                   firings, fired>>

\* a component under a provider protects and locks; one under none renders and calls
\* the fallback context
NextHook ==
    \/ Tick
    \/ ProtectSheet
    \/ LockCells
    \/ FallbackRender
    \/ FallbackMutate
    \/ FallbackQuery

SpecHook == InitHook /\ [][NextHook]_vars

\* C26: without a provider, a call of dispatch or of a convenience mutator returns and
\* leaves the state, the last action and the timers as they were, and isCellLocked and
\* isSheetProtected return false.
C26_FallbackIsInert ==
    [][(~mounted /\ settled'.by = "component") =>
          IF settled'.op \in {"isCellLocked", "isSheetProtected"}
          THEN settled'.result = "false"
          ELSE /\ settled'.result = "returned"
               /\ state' = state
               /\ lastAction' = lastAction
               /\ prevState' = prevState
               /\ timers' = timers]_vars

\* without a provider, lockCells has just been called at time 1 on the fallback of
\* time 0: nothing is locked, nothing was dispatched
C26_Witness ==
    /\ ~mounted
    /\ settled = Outcome("LOCK_CELLS", "component", "returned")
    /\ clock = 1
    /\ state = createInitialState(0)
    /\ "cellLocks" \notin DOMAIN state.sheets[1]
    /\ lastAction.type = "@@INIT"

\* the types of the update and remove actions whose payload names a sheet by sheetId
SheetUpdateTypes ==
    {"RENAME_SHEET", "UPDATE_CELL", "UPDATE_CELLS", "SET_CELL_STYLE", "UPDATE_IMAGE",
     "REMOVE_IMAGE", "UPDATE_CHART", "REMOVE_CHART", "UPDATE_GRID_CONFIG", "SET_ROW_SIZE",
     "SET_COLUMN_SIZE", "REMOVE_CONDITIONAL_FORMAT", "SET_DATA_VALIDATION",
     "SET_SPARKLINE", "PROTECT_SHEET", "LOCK_CELLS"}

\* C27: after an update or remove action whose sheetId no sheet of the document has,
\* the state is the state of before in every field.
C27_MissingSheetIsNoOp ==
    (/\ lastAction.type \in SheetUpdateTypes
     /\ Targets(prevState, lastAction.payload.sheetId) = {})
        => state = prevState

\* C28: no step of the store, an edit, a save's or a load's completion, leaves
\* metadata.updatedAt lower than it was.
C28_UpdatedAtNeverDecreases ==
    [][state'.metadata.updatedAt >= state.metadata.updatedAt]_vars

\* the sheetIds of the sheets of s, in order
SheetIdsOf(s) == [i \in 1..Len(s.sheets) |-> s.sheets[i].sheetId]

\* C29: no two sheets of the document have the same sheetId, and an action other than
\* a replacement leaves every sheet that stays with the sheetId it had (REMOVE_SHEET
\* takes sheets out, every other action keeps the sheets of before in their places).
C29_SheetIdsDistinctAndFixed ==
    /\ \A i, j \in 1..Len(state.sheets) :
          i # j => state.sheets[i].sheetId # state.sheets[j].sheetId
    /\ lastAction.type \notin ReplacingTypes \cup {"@@INIT"} =>
          IF lastAction.type = "REMOVE_SHEET"
          THEN SheetIdsOf(state) =
                   SelectSeq(SheetIdsOf(prevState), LAMBDA id : id # lastAction.payload)
          ELSE IsPrefix(SheetIdsOf(prevState), SheetIdsOf(state))

\* C30: a step whose dispatch is not SET_DOCUMENT or RESTORE_FROM_IPFS leaves
\* documentId as it was, and so does the completion of a save.
C30_DocumentIdIsStable ==
    [][/\ lastAction'.type \notin ReplacingTypes => state'.documentId = state.documentId
       /\ settled'.op = "save" => state'.documentId = state.documentId]_vars

----------------------------------------------------------------------------
(* Sheet protection and cell locks are separate fields of a sheet *)

\* C31: PROTECT_SHEET leaves the cellLocks of every sheet as they were (set to the
\* same entries, or still not set), and LOCK_CELLS leaves the protected flag and the
\* protectionPassword of every sheet as they were.
C31_LocksAndProtectionIndependent ==
    /\ lastAction.type = "PROTECT_SHEET" =>
          /\ Len(state.sheets) = Len(prevState.sheets)
          /\ \A i \in 1..Len(prevState.sheets) :
                KeepsField(prevState.sheets[i], state.sheets[i], "cellLocks")
    /\ lastAction.type = "LOCK_CELLS" =>
          /\ Len(state.sheets) = Len(prevState.sheets)
          /\ \A i \in 1..Len(prevState.sheets) :
                /\ KeepsField(prevState.sheets[i], state.sheets[i], "protected")
                /\ KeepsField(prevState.sheets[i], state.sheets[i], "protectionPassword")

\* A1 was locked on an unprotected sheet; PROTECT_SHEET with a password protects the
\* sheet and A1's lock entry is still there
C31_Witness ==
    /\ lastAction.type = "PROTECT_SHEET"
    /\ lastAction.payload = [sheetId |-> "sheet-1", protected |-> TRUE, password |-> "hash"]
    /\ "cellLocks" \in DOMAIN prevState.sheets[1]
    /\ prevState.sheets[1].cellLocks = [A1 |-> TRUE]
    /\ "protected" \in DOMAIN prevState.sheets[1]
    /\ prevState.sheets[1].protected = FALSE
    /\ state.sheets[1].protected = TRUE
    /\ state.sheets[1].protectionPassword = "hash"
    /\ state.sheets[1].cellLocks = [A1 |-> TRUE]

----------------------------------------------------------------------------
(* A session left to itself: the user edits, time passes, and the only saves *)
(* are those of the auto-save timer, one after the other.                    *)

\* a timer is due, in a session that sees up to MaxAutoSaves of them fire
TimerFiresAgain == TimerFiresUpTo(MaxAutoSaves)

NextSchedule ==
    \/ Elapse
    \/ TimerFiresAgain
    \/ EditValue
    \/ UploadSucceeds
    \/ UploadFails

SpecSchedule == Init /\ [][NextSchedule]_vars

\* C32: an auto-save that has succeeded is not followed by another one unless the
\* user has acted in between: no timer fires while the last change of the document
\* is the commit of a successful auto-save.  (Under SpecSchedule every save is an
\* auto-save, so the last action is SET_DOCUMENT exactly when no edit has followed
\* the last successful auto-save.)
C32_AutoSaveIsSingleShot ==
    [][firings' > firings => lastAction.type # "SET_DOCUMENT"]_vars

\* C33: a failed auto-save is not tried again.  The timer that fires is gone and no
\* other is pending; the step in which the upload fails changes neither the document
\* nor the timers and starts no save; and where no timer is pending, one appears
\* only in a step that renders a changed state, armed for that state with the full
\* delay.
C33_FailedAutoSaveIsNotRetried ==
    [][LET failed == /\ settled'.op = "save"
                     /\ settled'.by = "timer"
                     /\ settled'.result # "resolved"
       IN  /\ firings' > firings => DOMAIN timers' = {}
           /\ failed => /\ state' = state
                        /\ timers' = timers
                        /\ autoSaveTimerRef' = autoSaveTimerRef
                        /\ firings' = firings
                        /\ Len(saves') = Len(saves) - 1
           /\ (DOMAIN timers = {} /\ DOMAIN timers' # {}) =>
                 /\ ~failed
                 /\ sinceChange' = 0
                 /\ \A id \in DOMAIN timers' :
                       /\ timers'[id].closure = state'
                       /\ timers'[id].remaining = AutoSaveDelay(state')]_vars

\* the upload of the one auto-save has just failed: the callback has caught the
\* rejection, no timer is pending, no upload is in flight, nothing was stored
C33_Witness ==
    /\ settled = Outcome("save", "timer", "caught")
    /\ firings = 1
    /\ DOMAIN timers = {}
    /\ saves = <<>>
    /\ store = <<>>
    /\ state.versionHistory = <<>>

----------------------------------------------------------------------------
(* Edits made while a save is uploading *)

\* C34: the step in which a save succeeds changes nothing of the document but its
\* version history: every other field, the cells that were edited while the upload
\* was pending included, is after the step what it was just before it.
C34_SaveKeepsConcurrentEdits ==
    [][(settled'.op = "save" /\ settled'.result = "resolved") =>
          /\ DOMAIN state \ {"versionHistory"} = DOMAIN state' \ {"versionHistory"}
          /\ \A field \in DOMAIN state \ {"versionHistory"} :
                state'[field] = state[field]]_vars

----------------------------------------------------------------------------
(* useSpreadsheetDocumentSync: the effects that copy the live editing data of *)
(* the SpreadsheetContext into the document.  A live object is modelled as    *)
(* the sequence of <<key, value>> pairs that Object.entries returns for it; a *)
(* live value carries its typeof; strings that the code parses are sequences  *)
(* of char codes.  The session has no floating images.                        *)

NumberValue(n) == [type |-> "number", number |-> n]
StringValue(s) == [type |-> "string", string |-> s]
BooleanValue(b) == [type |-> "boolean", boolean |-> b]

DigitStrings == <<"0", "1", "2", "3", "4", "5", "6", "7", "8", "9">>

\* String(n) for a non-negative integer n
RECURSIVE NumberToString(_)
NumberToString(n) ==
    IF n < 10
    THEN DigitStrings[n + 1]
    ELSE NumberToString(n \div 10) \o DigitStrings[(n % 10) + 1]

\* String(value) for a string or a number
StringOf(value) ==
    IF value.type = "string" THEN value.string ELSE NumberToString(value.number)

\* parseInt(str) for a string that starts with a digit: the digits up to the first
\* other character, read in base 10 (from position i with the result so far)
RECURSIVE parseIntLoop(_, _, _)
parseIntLoop(str, i, result) ==
    IF i > Len(str) \/ str[i] \notin 48..57
    THEN result
    ELSE parseIntLoop(str, i + 1, result * 10 + (str[i] - 48))

parseInt(str) == parseIntLoop(str, 1, 0)

\* currentCell.value !== value, where the document holds strings
ValueDiffers(currentCell, value) ==
    \/ "value" \notin DOMAIN currentCell
    \/ value.type # "string"
    \/ currentCell.value # value.string

\* activeSheet?.sheetId || 'sheet-1', with activeSheet = state.sheets[0]
SyncSheetId(s) ==
    IF Len(s.sheets) = 0 \/ s.sheets[1].sheetId = "" THEN "sheet-1" ELSE s.sheets[1].sheetId

\* the cell data effect: the actions it dispatches in the render of s
CellDataEffect(s, data) ==
    IF Len(s.sheets) = 0
    THEN <<>>
    ELSE LET activeSheet == s.sheets[1]
             stale == SelectSeq(data, LAMBDA entry :
                          /\ entry[2].type \in {"string", "number"}
                          /\ \/ entry[1] \notin DOMAIN activeSheet.cells
                             \/ ValueDiffers(activeSheet.cells[entry[1]], entry[2]))
         IN  [i \in 1..Len(stale) |->
                 Action("UPDATE_CELL",
                        [sheetId |-> SyncSheetId(s), cellKey |-> stale[i][1],
                         data |-> [value |-> StringOf(stale[i][2]), type |-> "string"]])]

\* format.field is set and is not false, '' or 0
Truthy(format, field) ==
    /\ field \in DOMAIN format
    /\ IF field \in {"bold", "italic", "underline"}
       THEN format[field]
       ELSE IF field = "fontSize"
            THEN IF format.fontSize.type = "string"
                 THEN format.fontSize.string # <<>>
                 ELSE format.fontSize.number # 0
            ELSE format[field] # ""

\* the style that the cell format effect builds from a format: one
\* if (format.x) style.y = ... for each field of the format
FormatStyle(format) ==
    LET StyleField(field) ==
            CASE field = "color" -> "textColor"
              [] field = "textAlign" -> "alignment"
              [] OTHER -> field
        StyleValue(field) ==
            CASE field \in {"bold", "italic", "underline"} -> TRUE
              [] field = "fontSize" ->
                    IF format.fontSize.type = "string"
                    THEN parseInt(format.fontSize.string)
                    ELSE format.fontSize.number
              [] field = "textAlign" -> [horizontal |-> format.textAlign]
              [] OTHER -> format[field]
        fields == {field \in {"bold", "italic", "underline", "color", "backgroundColor",
                              "fontSize", "fontFamily", "textAlign"} :
                      Truthy(format, field)}
    IN  [key \in {StyleField(field) : field \in fields} |->
            StyleValue(CHOOSE field \in fields : StyleField(field) = key)]

\* the cell format effect: the actions it dispatches in the render of s
CellFormatsEffect(s, formats) ==
    IF Len(s.sheets) = 0
    THEN <<>>
    ELSE LET styled == SelectSeq(formats, LAMBDA entry : FormatStyle(entry[2]) # EmptyObj)
         IN  [i \in 1..Len(styled) |->
                 Action("SET_CELL_STYLE",
                        [sheetId |-> SyncSheetId(s), cellKey |-> styled[i][1],
                         style |-> FormatStyle(styled[i][2])])]

\* the row size effect: the actions it dispatches in the render of s
RowHeightsEffect(s, heights) ==
    IF Len(s.sheets) = 0
    THEN <<>>
    ELSE [i \in 1..Len(heights) |->
             Action("SET_ROW_SIZE",
                    [sheetId |-> SyncSheetId(s), rowIndex |-> parseInt(heights[i][1]),
                     size |-> heights[i][2]])]

\* the column size effect: the actions it dispatches in the render of s
ColumnWidthsEffect(s, widths) ==
    IF Len(s.sheets) = 0
    THEN <<>>
    ELSE [i \in 1..Len(widths) |->
             Action("SET_COLUMN_SIZE",
                    [sheetId |-> SyncSheetId(s), colIndex |-> parseInt(widths[i][1]),
                     size |-> widths[i][2]])]

\* the live data of the session
LiveCellData ==
    { <<>>,
      << <<"A1", StringValue("x")>> >>,
      << <<"A1", StringValue("")>>, <<"B1", BooleanValue(TRUE)>> >>,
      << <<"A1", NumberValue(5)>> >>,
      << <<"A1", StringValue("x")>>, <<"B1", NumberValue(12)>> >> }

LiveCellFormats ==
    { <<>>,
      << <<"A1", [bold |-> FALSE]>> >>,
      << <<"A1", [bold |-> TRUE, color |-> "red"]>> >>,
      << <<"B1", [fontSize |-> [type |-> "string", string |-> <<49, 52, 112, 120>>],
                  textAlign |-> "center"]>> >> }

LiveRowHeights == { <<>>, << << <<49, 48>>, 30 >> >> }

LiveColumnWidths == { <<>>, << << <<48>>, 120 >> >> }

\* the provider and a component that calls the hook have mounted
InitSync ==
    /\ InitProvider
    /\ column = <<>>
    /\ colIndex = <<>>
    /\ cellData \in LiveCellData
    /\ cellFormats \in LiveCellFormats
    /\ rowHeights \in LiveRowHeights
    /\ columnWidths \in LiveColumnWidths
    /\ syncDue = TRUE

\* the reducer returns another object for state.sheets[0]: some action is on its id
ActiveSheetReplaced(s, actions) ==
    /\ Len(s.sheets) > 0
    /\ \E i \in 1..Len(actions) : actions[i].payload.sheetId = s.sheets[1].sheetId

\* the effects of the hook run after a render in which activeSheet has changed, in
\* the order of the source and each with the activeSheet of that render; React
\* reduces what they dispatch in that order and renders once
SyncEffects ==
    /\ mounted
    /\ syncDue
    /\ \E actions \in {CellDataEffect(state, cellData)
                         \o CellFormatsEffect(state, cellFormats)
                         \o RowHeightsEffect(state, rowHeights)
                         \o ColumnWidthsEffect(state, columnWidths)} :
          IF Len(actions) = 0
          THEN /\ syncDue' = FALSE
               /\ UNCHANGED <<docVars, schedVars>>
          ELSE \E next \in {ReduceAll(state, actions, clock, 1)},
                  before \in {ReduceAll(state, SubSeq(actions, 1, Len(actions) - 1),
                                        clock, 1)} :
                  /\ state' = next
                  /\ lastAction' = actions[Len(actions)]
                  /\ prevState' = before
                  /\ Render(next)
                  /\ syncDue' = ActiveSheetReplaced(state, actions)
    /\ settled' = NoOutcome
    /\ UNCHANGED <<clock, persistVars, columnVars, liveVars, propVars, firings, fired>>

NextSync ==
    \/ SyncEffects
    \/ Elapse
    \/ TimerFires

\* React runs the effects that are due, time passes, and a timer that is due fires
SpecSync ==
    /\ InitSync
    /\ [][NextSync]_vars
    /\ WF_vars(SyncEffects)
    /\ WF_vars(Elapse)
    /\ WF_vars(TimerFires)

\* every live entry that is a string or a number has a cell with value String(value)
CellsSynced(s, data) ==
    \A i \in 1..Len(data) :
        data[i][2].type \in {"string", "number"} =>
            /\ Len(s.sheets) > 0
            /\ data[i][1] \in DOMAIN s.sheets[1].cells
            /\ "value" \in DOMAIN s.sheets[1].cells[data[i][1]]
            /\ s.sheets[1].cells[data[i][1]].value = StringOf(data[i][2])

\* C35: with the live cellData fixed, from some time on the cell data effect has
\* nothing more to dispatch, and every live entry that is a string or a number, of
\* either type, has a document cell whose value is String(value).
C35_CellSyncReachesFixpoint ==
    <>[](/\ Len(CellDataEffect(state, cellData)) = 0
         /\ CellsSynced(state, cellData))

\* the live formats, row heights and column widths are all non-empty
LiveStylesAndSizes ==
    /\ Len(cellFormats) > 0
    /\ Len(rowHeights) > 0
    /\ Len(columnWidths) > 0

\* C36: with the live cellFormats, rowHeights and columnWidths fixed and non-empty,
\* from some time on the effects of the hook are not due again and have nothing to
\* dispatch, so that the document no longer changes, and the auto-save timer fires.
C36_StyleAndSizeSyncsStop ==
    /\ <>[](LiveStylesAndSizes =>
               /\ ~syncDue
               /\ Len(CellFormatsEffect(state, cellFormats)) = 0
               /\ Len(RowHeightsEffect(state, rowHeights)) = 0
               /\ Len(ColumnWidthsEffect(state, columnWidths)) = 0)
    /\ <>(LiveStylesAndSizes => firings > 0)

----------------------------------------------------------------------------
(* The sheets an action leaves alone *)

\* the action types whose payload is an object with a sheetId to act on
SheetTargetTypes ==
    SheetUpdateTypes \cup {"ADD_IMAGE", "ADD_CHART", "ADD_CONDITIONAL_FORMAT",
                           "ADD_SHAPE", "UPDATE_SHAPE", "REMOVE_SHAPE"}

\* C37: an action on a sheetId leaves the number of sheets and every sheet with
\* another id as they were; an action other than ADD_SHEET, REMOVE_SHEET and the two
\* replacements leaves the sequence of sheetIds as it was; ADD_SHEET leaves the
\* sheets of before in their places and puts the new sheet after them; REMOVE_SHEET
\* leaves the other sheets as they were and in their order.
C37_OtherSheetsUntouched ==
    /\ lastAction.type \in SheetTargetTypes =>
          /\ Len(state.sheets) = Len(prevState.sheets)
          /\ \A i \in 1..Len(prevState.sheets) :
                prevState.sheets[i].sheetId # lastAction.payload.sheetId =>
                    state.sheets[i] = prevState.sheets[i]
    /\ lastAction.type \notin ReplacingTypes \cup {"ADD_SHEET", "REMOVE_SHEET", "@@INIT"} =>
          SheetIdsOf(state) = SheetIdsOf(prevState)
    /\ lastAction.type = "ADD_SHEET" =>
          /\ Len(state.sheets) = Len(prevState.sheets) + 1
          /\ SubSeq(state.sheets, 1, Len(prevState.sheets)) = prevState.sheets
          /\ state.sheets[Len(state.sheets)] = lastAction.payload
    /\ lastAction.type = "REMOVE_SHEET" =>
          state.sheets =
              SelectSeq(prevState.sheets, LAMBDA sheet : sheet.sheetId # lastAction.payload)

\* the document had sheet-1 and sheet-2; ADD_SHEET of another sheet-2 leaves both in
\* their places and puts the new sheet third
C37_Witness ==
    /\ lastAction.type = "ADD_SHEET"
    /\ lastAction.payload.sheetId = "sheet-2"
    /\ prevState = TwoSheetDocument
    /\ SheetIdsOf(state) = <<"sheet-1", "sheet-2", "sheet-2">>
    /\ state.sheets[1] = prevState.sheets[1]
    /\ state.sheets[2] = prevState.sheets[2]

----------------------------------------------------------------------------
(* useDocumentSaveHandler: saves through handleSave, under a provider *)

\* handleSave() is called: it awaits the saveToIPFS of the current render
HandleSave ==
    /\ mounted
    /\ Len(store) + Len(saves) < MaxSaves
    /\ saves' = Append(saves, PendingSave(state, "handler"))
    /\ settled' = NoOutcome
    /\ UNCHANGED <<docVars, clock, store, savedAs, loads, lastCid, columnVars, syncVars,
                   schedVars, propVars, firings, fired>>

\* edits, saves through handleSave and auto-saves on one document
NextHandler ==
    \/ Elapse
    \/ TimerFires
    \/ EditValue
    \/ HandleSave
    \/ UploadSucceeds
    \/ UploadFails

SpecHandler == Init /\ [][NextHandler]_vars

\* C38: the promise of handleSave is never rejected.  When the save has succeeded it
\* resolves to {success: true, cid} with the cid under which the saved state was
\* stored and which the new version entry carries; when the save has failed it
\* resolves to {success: false, error} with the error's message, and the step leaves
\* the document and the storage as they were.
C38_HandleSaveNeverRejects ==
    [][settled'.by = "handler" =>
          /\ settled'.result = "resolved"
          /\ "success" \in DOMAIN settled'.value
          /\ IF settled'.value.success
             THEN /\ DOMAIN settled'.value = {"success", "cid"}
                  /\ settled'.value.cid = lastCid'
                  /\ settled'.value.cid \in 1..Len(store')
                  /\ \E i \in 1..Len(saves) :
                        /\ saves[i].by = "handler"
                        /\ saves' = RemoveAt(saves, i)
                        /\ store'[settled'.value.cid] = SerializeDocument(saves[i].snapshot)
                  /\ state'.versionHistory # <<>>
                  /\ state'.versionHistory[Len(state'.versionHistory)].cid =
                        settled'.value.cid
             ELSE /\ settled'.value = [success |-> FALSE, error |-> "upload failed"]
                  /\ state' = state
                  /\ store' = store
                  /\ Len(saves') = Len(saves) - 1]_vars

\* the user has typed into A1 while the upload of handleSave() was pending and the
\* upload has failed: handleSave has resolved to {success: false, error}, nothing is
\* stored and A1 has its value
C38_Witness ==
    /\ settled = [op |-> "save", by |-> "handler", result |-> "resolved",
                  value |-> [success |-> FALSE, error |-> "upload failed"]]
    /\ store = <<>>
    /\ saves = <<>>
    /\ "A1" \in DOMAIN state.sheets[1].cells
    /\ state.versionHistory = <<>>

\* ---------------------------------------------------------------------------
\* Locks and protection are advisory to the reducer

\* C39: UPDATE_CELL, UPDATE_CELLS and SET_CELL_STYLE leave under each target key the
\* merge of the previous cell and the payload, on every target sheet, whether or not
\* isCellLocked holds for the cell; PROTECT_SHEET leaves the payload's protected flag
\* and password on the sheet, whatever password the sheet held.
C39_LocksAreAdvisory ==
    /\ lastAction.type = "UPDATE_CELL" =>
          \A i \in Targets(prevState, lastAction.payload.sheetId) :
              LET cellKey == lastAction.payload.cellKey
              IN  /\ cellKey \in DOMAIN state.sheets[i].cells
                  /\ state.sheets[i].cells[cellKey] =
                        Merge(CellSpread(prevState.sheets[i], cellKey),
                              lastAction.payload.data)
    /\ lastAction.type = "UPDATE_CELLS" =>
          \A i \in Targets(prevState, lastAction.payload.sheetId) :
              \A cellKey \in DOMAIN lastAction.payload.cells :
                  /\ cellKey \in DOMAIN state.sheets[i].cells
                  /\ state.sheets[i].cells[cellKey] =
                        Merge(CellSpread(prevState.sheets[i], cellKey),
                              lastAction.payload.cells[cellKey])
    /\ lastAction.type = "SET_CELL_STYLE" =>
          \A i \in Targets(prevState, lastAction.payload.sheetId) :
              LET cellKey == lastAction.payload.cellKey
              IN  /\ cellKey \in DOMAIN state.sheets[i].cells
                  /\ state.sheets[i].cells[cellKey] =
                        SetKey(CellSpread(prevState.sheets[i], cellKey), "style",
                               Merge(StyleSpread(prevState.sheets[i], cellKey),
                                     lastAction.payload.style))
    /\ lastAction.type = "PROTECT_SHEET" =>
          \A i \in Targets(prevState, lastAction.payload.sheetId) :
              /\ state.sheets[i].protected = lastAction.payload.protected
              /\ state.sheets[i].protectionPassword = lastAction.payload.password

\* a cell of a sheet protected under a password, locked by isCellLocked, is given a
\* new value
C39_Witness ==
    /\ prevState = ProtectedDocument
    /\ isCellLocked(prevState, "sheet-1", "A1")
    /\ lastAction.type = "UPDATE_CELL"
    /\ lastAction.payload.sheetId = "sheet-1"
    /\ lastAction.payload.cellKey = "A1"
    /\ prevState.sheets[1].cells["A1"].value = "x"
    /\ state.sheets[1].cells["A1"].value # "x"
    /\ isCellLocked(state, "sheet-1", "A1")

=============================================================================
